---- MODULE Spec2Model ----
(***************************************************************************)
(* EmbedCore.                                                              *)
(* The resilience layer: the circuit breaker of circuit_breaker.py and the *)
(* retry loop of EmbeddingService._retry_with_backoff, run by one          *)
(* synchronous caller.  An operation is a direct CircuitBreaker.call       *)
(* ("call"), a retry around a plain function ("retry"), or a retry layered *)
(* around CircuitBreaker.call ("retry_cb").                                *)
(*   Spec          the breaker, called directly and under the retry loop   *)
(*   RetrySpec     the retry loop around plain functions                   *)
(* The embedding core: embedcore_v3.py, keystore.py, assistant_pipeline.py *)
(*   TransformSpec obfuscate and deobfuscate applied to vectors and keys   *)
(*   GeneratorSpec generate_embedding called over interpreter runs         *)
(*   VaultSpec     KeyStore objects over one database, one caller          *)
(*   PipelineSpec  concurrent process_message calls and key rotation       *)
(*   IntakeSpec    process_message from its input checks to its writes     *)
(* The service layer: cache.py, embedding_service.py, vector_db.py         *)
(*   CacheSpec     set, get, delete, flush and stats on the cache          *)
(*   CachedSpec    calls of functions wrapped by the cached decorator      *)
(*   StoreSpec     store_embedding under the retry loop                    *)
(*   SearchSpec    search_similar_items over stored items                  *)
(*   FileSpec      embed_logger and the service on one assistant_core.db   *)
(* Recovery of the breaker, and objects shared by several threads          *)
(*   RecoverySpec  direct calls around a function that stops failing       *)
(*   CallersSpec   threads failing through one CircuitBreaker              *)
(*   SharersSpec   threads on one CacheManager                             *)
(*   DrawersSpec   threads in generate_embedding on the shared generator   *)
(*   BuildersSpec  KeyStore() constructed concurrently on an empty store   *)
(***************************************************************************)
EXTENDS Integers, Sequences, FiniteSets, TLC

\* ------------------------------------------------------------ bounds
MaxThreshold == 3        \* failure_threshold is drawn from 1..MaxThreshold
MaxRecoveryTimeout == 2  \* recovery_timeout is drawn from 1..MaxRecoveryTimeout
MaxRetries == 3          \* max_retries is drawn from 0..MaxRetries
MaxTime == 6             \* the clock runs over 0..MaxTime
MaxExtraFailures == 1    \* _failure_count is capped at failure_threshold + MaxExtraFailures
NumErrors == 2           \* distinct exceptions the wrapped function may raise
NumResults == 2          \* distinct values the wrapped function may return
SigBits == 16            \* significand width of the floating-point format (53 in CPython)
Scale == 16              \* representable steps per 1/10000, the step of the key offsets
MaxLen == 2              \* vectors handed to the transform have 0..MaxLen components
Dim == 3                 \* components of a generated embedding (384 in embedcore_v3.py)
SeedBits == 16           \* width of the generator seed (32 in embedcore_v3.py)
NumSalts == 3            \* string-hash salts an interpreter may start with
NumInstances == 2        \* KeyStore objects over the one database
MaxCalls == 5            \* calls made on KeyStore objects in one run
MaxMessages == 2         \* process_message calls in one run
MaxRotations == 1        \* rotate_key calls next to them
MaxClock == 3            \* time.time() runs over 0..MaxClock for the cache
MaxTtl == 2              \* ttl is drawn from 1..MaxTtl
NumValues == 2           \* distinct values stored in the cache
MaxCacheOps == 3         \* calls made on the cache in one run
MaxStores == 3           \* store_embedding calls in one run
MaxTopK == 2             \* top_k is drawn from 0..MaxTopK
MaxServiceCalls == 3     \* stores and searches in one run of the read path
MaxProcessed == 2        \* process_message calls in one run of the intake
MaxFileOps == 3          \* calls on assistant_core.db in one run
NumWorkers == 2          \* threads calling into one shared object

\* ------------------------------------------------------------ constants
retry_delay == 1         \* self.retry_delay = 1.0
SuccessesToClose == 2    \* if self._success_count >= 2
None == 0 - 1            \* Python's None for a time or an exception

Errors == 1..NumErrors
Results == 1..NumResults

VARIABLES
    \* CircuitBreaker fields
    failure_threshold, recovery_timeout,
    state, failure_count, success_count, last_failure_time,
    \* EmbeddingService retry configuration and the locals of _retry_with_backoff
    max_retries, attempt, last_exception,
    \* the clock (time.time()), the running operation and the caller's position
    now, op, pc,
    \* what the caller of the operation receives: [kind, val]
    result,
    \* observation of the running operation
    outcomes,      \* outcome of each attempt of the retry loop, in order
    sleeps,        \* the delays passed to time.sleep, in order
    invoked,       \* invocations of the underlying function
    rejected,      \* CircuitBreakerOpenException raised by the breaker
    entry_state,   \* breaker state when the latest CircuitBreaker.call began
    call_invoked,  \* invocations of the wrapped function in that call
    \* observation of the breaker's history
    succ_run,      \* successful breaker calls since the last failed one (2 = two or more)
    fail_run,      \* failed breaker calls since the last successful one
    failures_ever, \* failed breaker calls since construction (up to the threshold)
    last_fail_from,\* breaker state in which the latest failed call failed
    last_fail_at   \* clock reading of the latest failed call

breaker == <<state, failure_count, success_count, last_failure_time>>
config == <<failure_threshold, recovery_timeout, max_retries>>
history == <<succ_run, fail_run, failures_ever, last_fail_from, last_fail_at>>
resilience_vars == <<failure_threshold, recovery_timeout, state, failure_count, success_count,
          last_failure_time, max_retries, attempt, last_exception, now, op, pc,
          result, outcomes, sleeps, invoked, rejected, entry_state, call_invoked,
          succ_run, fail_run, failures_ever, last_fail_from, last_fail_at>>

\* ------------------------------------------------------------ embedding transform
VARIABLES
    \* arguments and results of obfuscate / deobfuscate (embedcore_v3.py)
    embedding,        \* the vector handed to obfuscate
    user_key,         \* the key handed to obfuscate and deobfuscate
    other_key,        \* a second key, handed to obfuscate with the same vector
    obfuscated,       \* outcome of obfuscate(embedding, user_key): [kind, val]
    other_obfuscated, \* outcome of obfuscate(embedding, other_key)
    restored          \* outcome of deobfuscate(obfuscated, user_key)

transform_vars == <<embedding, user_key, other_key, obfuscated, other_obfuscated, restored>>

NoVector == [kind |-> "none", val |-> << >>]
Vector(v) == [kind |-> "ok", val |-> v]
ValueError == [kind |-> "ValueError", val |-> << >>]

\* no call of the transform has been made
TransformIdle ==
    /\ embedding = << >>
    /\ user_key = ""
    /\ other_key = ""
    /\ obfuscated = NoVector
    /\ other_obfuscated = NoVector
    /\ restored = NoVector

\* ------------------------------------------------------------ vector generator
VARIABLES
    hash_salt,       \* the interpreter's string-hash salt, drawn when it starts
    rng,             \* state of the module-level generator of the random module
    message_text,    \* argument of the latest generate_embedding call
    generated,       \* its outcome: [kind, val]
    first_generated  \* per text, the outcome of the first call ever made with it

generator_vars == <<hash_salt, rng, message_text, generated, first_generated>>

\* the interpreter runs; generate_embedding has not been called
GeneratorIdle ==
    /\ hash_salt = 0
    /\ rng = 0
    /\ message_text = ""
    /\ generated = NoVector
    /\ first_generated = << >>

\* ------------------------------------------------------------ key store
VARIABLES
    \* the SQLite database behind KeyStore (keystore.db)
    master_key_rows, \* table master_key: rows [id, key_data]
    user_key_rows,   \* table user_keys: rows [user_id, encrypted_key]
    \* the KeyStore objects: per instance [master_key, supplied] or NoInstance
    instances,
    key_stream,      \* the keys Fernet.generate_key returns in this run, in order
    issued,          \* how many of them it has returned
    \* observation of the calls made on KeyStore objects
    calls,           \* number of calls made
    last_call,       \* the latest call: [name, inst, user_id, ret, held]
    current_key      \* per user, the key returned by the latest generate_key or
                     \* rotate_key and the master key of the instance that made it

vault_vars == <<master_key_rows, user_key_rows, instances, key_stream, issued, calls,
                last_call, current_key>>

Absent == "None"      \* Python's None where a key is expected
NoInstance == [master_key |-> Absent, supplied |-> FALSE]
NoCall == [name |-> "none", inst |-> 0, user_id |-> "", ret |-> Absent, held |-> Absent]

\* no database file, no KeyStore object
VaultIdle ==
    /\ master_key_rows = {}
    /\ user_key_rows = {}
    /\ instances = << >>
    /\ key_stream = << >>
    /\ issued = 0
    /\ calls = 0
    /\ last_call = NoCall
    /\ current_key = << >>

\* ------------------------------------------------------------ message pipeline
VARIABLES
    embedding_rows, \* table embeddings of assistant_core.db: rows [id, user_id,
                    \* obfuscated_embedding], with the key and the vector each was made from
    procs,          \* per caller of process_message: its position and locals
    messages,       \* process_message calls started
    rotations       \* rotate_key calls made by the operator

pipeline_vars == <<embedding_rows, procs, messages, rotations>>

\* nothing has been processed
PipelineIdle ==
    /\ embedding_rows = {}
    /\ procs = << >>
    /\ messages = 0
    /\ rotations = 0

\* ------------------------------------------------------------ cache
VARIABLES
    \* the CacheManager object cache_manager (cache.py)
    _cache,        \* its dict: digest -> [value, expiry]
    enabled,       \* its enabled flag
    clock,         \* what time.time() returns
    \* observation of the calls made on it and through cached()
    cache_ops,     \* number of calls made
    cache_call,    \* the latest call: [name, key, sig, ret, ok, hit, by, invoked, stats]
    last_set,      \* per key, the latest set that stored an entry and was not
                   \* followed by a delete of the key or a flush
    stored_by      \* per digest, the call signature whose result the entry holds

cache_vars == <<_cache, enabled, clock, cache_ops, cache_call, last_set, stored_by>>

NoSig == [func |-> "", args |-> << >>]
NoStats == [total_entries |-> None, valid_entries |-> None, expired_entries |-> None]
NoCacheCall == [name |-> "none", key |-> "", sig |-> NoSig, ret |-> None, ok |-> FALSE,
                hit |-> FALSE, by |-> NoSig, invoked |-> FALSE, stats |-> NoStats]

\* cache.py has not been imported
CacheIdle ==
    /\ _cache = << >>
    /\ enabled = TRUE
    /\ clock = 0
    /\ cache_ops = 0
    /\ cache_call = NoCacheCall
    /\ last_set = << >>
    /\ stored_by = << >>

\* ------------------------------------------------------------ storage facade
VARIABLES
    \* EmbeddingService over db_manager and vector_db (embedding_service.py)
    table_rows,   \* table embeddings of db_manager: its rows in scan order
    index_rows,   \* the vectors the vector index holds: [id, values, metadata]
    vdb_enabled,  \* vector_db.enabled
    model_dim,    \* length of the vectors the configured model gives
    stores,       \* calls of the service started
    store_call,   \* the latest store_embedding call: its arguments, its
                  \* position and what it has done
    search_call   \* the latest search_similar_items call and its result

facade_vars == <<table_rows, index_rows, vdb_enabled, model_dim, stores, store_call,
                 search_call>>

NoStore == [pc |-> "idle", item_type |-> "", item_id |-> "", text |-> "", attempt |-> 0,
            attempts |-> 0, rel_ok |-> FALSE, idx_attempted |-> FALSE, idx_ok |-> FALSE,
            ret |-> FALSE]
NoSearch == [name |-> "none", query_text |-> "", summary_id |-> "", top_k |-> 0,
             idx_ok |-> FALSE, db_ok |-> FALSE, ret |-> << >>]

\* embedding_service.py has not been imported
FacadeIdle ==
    /\ table_rows = << >>
    /\ index_rows = << >>
    /\ vdb_enabled = FALSE
    /\ model_dim = 0
    /\ stores = 0
    /\ store_call = NoStore
    /\ search_call = NoSearch

\* ------------------------------------------------------------ message intake
VARIABLES
    \* process_message with its arguments, its failures and what it writes
    \* (assistant_pipeline.py, embed_logger.py)
    db_rows,    \* table embeddings of assistant_core.db as save_embedding
                \* writes it: [user_id, session_id, platform, obfuscated_embedding]
    csv_lines,  \* the data lines of embedding_log.csv
    msg_count,  \* process_message calls made
    msg_call,   \* the latest process_message call: its arguments, its position,
                \* its locals and its outcome
    first_success  \* per user and message, what the first call that returned
                \* status "success" returned

intake_vars == <<db_rows, csv_lines, msg_count, msg_call, first_success>>

NoArg == [type |-> "none", int |-> 0, str |-> ""]
NoProcess == [pc |-> "idle", user_id |-> NoArg, session_id |-> NoArg, platform |-> NoArg,
              message_text |-> NoArg, embedding |-> << >>, user_key |-> Absent,
              obfuscated_embedding |-> << >>, status |-> "none", raised |-> "none",
              failed |-> "none", write_attempted |-> FALSE, db_success |-> FALSE,
              csv_success |-> FALSE, rows_before |-> 0, lines_before |-> 0,
              keys_before |-> {}]

\* assistant_pipeline.py has not been imported
IntakeIdle ==
    /\ db_rows = << >>
    /\ csv_lines = << >>
    /\ msg_count = 0
    /\ msg_call = NoProcess
    /\ first_success = {}

\* ------------------------------------------------------------ shared state
VARIABLES
    \* the one table embeddings of assistant_core.db, which embed_logger.py
    \* and database_prod.py both create, and the threads of a process
    embeddings_schema, \* who created the table: "none", "service"
                       \* (database_prod.py) or "logger" (embed_logger.py)
    file_ops,          \* calls made on the file
    file_call,         \* the latest call on the file and what it found
    workers            \* the threads calling into one shared object: each
                       \* thread's position and locals

shared_vars == <<embeddings_schema, file_ops, file_call, workers>>

NoFileCall == [name |-> "none", ret |-> FALSE, table_before |-> << >>,
               rows_before |-> << >>, schema_before |-> "none", row |-> << >>]

\* assistant_core.db does not exist
FileIdle ==
    /\ embeddings_schema = "none"
    /\ file_ops = 0
    /\ file_call = NoFileCall

\* no file, and no thread started
SharedIdle ==
    /\ FileIdle
    /\ workers = << >>

\* @@SERVICE_VARS@@
\* the subsystems of the embedding service
service_vars == <<cache_vars, facade_vars, intake_vars, shared_vars>>

ServiceIdle ==
    /\ CacheIdle
    /\ FacadeIdle
    /\ IntakeIdle
    /\ SharedIdle

core_vars == <<resilience_vars, transform_vars, generator_vars, vault_vars, pipeline_vars>>
outside_cache == <<core_vars, facade_vars, intake_vars, shared_vars>>
outside_facade == <<core_vars, cache_vars, intake_vars, shared_vars>>
outside_intake == <<resilience_vars, transform_vars, pipeline_vars, cache_vars, facade_vars,
                    shared_vars>>

outside_transform == <<resilience_vars, generator_vars, vault_vars, pipeline_vars,
                       service_vars>>
outside_generator == <<resilience_vars, transform_vars, vault_vars, pipeline_vars,
                       service_vars>>
outside_vault == <<resilience_vars, transform_vars, generator_vars, pipeline_vars,
                   service_vars>>
outside_resilience == <<transform_vars, generator_vars, vault_vars, pipeline_vars,
                        service_vars>>

OutsideResilienceIdle ==
    /\ TransformIdle
    /\ GeneratorIdle
    /\ VaultIdle
    /\ PipelineIdle
    /\ ServiceIdle

vars == <<resilience_vars, outside_resilience>>

Min(a, b) == IF a < b THEN a ELSE b

NoResult == [kind |-> "none", val |-> 0]
Returned(v) == [kind |-> "ok", val |-> v]
Raised(e) == [kind |-> "err", val |-> e]
CircuitOpen == [kind |-> "open", val |-> 0]
AllFailed == [kind |-> "all_failed", val |-> 0]

\* ------------------------------------------------------------ construction
\* CircuitBreaker.__init__ and EmbeddingService.__init__
ResilienceInit ==
    /\ failure_threshold \in 1..MaxThreshold
    /\ recovery_timeout \in 1..MaxRecoveryTimeout
    /\ state = "CLOSED"
    /\ failure_count = 0
    /\ last_failure_time = None
    /\ success_count = 0
    /\ max_retries \in 0..MaxRetries
    /\ attempt = 0
    /\ last_exception = None
    /\ now = 0
    /\ op = "none"
    /\ pc = "idle"
    /\ result = NoResult
    /\ outcomes = << >>
    /\ sleeps = << >>
    /\ invoked = 0
    /\ rejected = 0
    /\ entry_state = "none"
    /\ call_invoked = 0
    /\ succ_run = 0
    /\ fail_run = 0
    /\ failures_ever = 0
    /\ last_fail_from = "none"
    /\ last_fail_at = None

\* the resilience layer starts; nothing else runs
Init ==
    /\ ResilienceInit
    /\ OutsideResilienceIdle

\* ------------------------------------------------------------ CircuitBreaker
\* variant: any recorded failure allows the probe, whatever the time
can_attempt_reset_untimed ==
    last_failure_time # None

\* variant: the timeout must be exceeded, not reached
can_attempt_reset_strict ==
    IF last_failure_time = None
    THEN FALSE
    ELSE now - last_failure_time > recovery_timeout

\* _can_attempt_reset: has recovery_timeout passed since the last failure
can_attempt_reset ==
    IF last_failure_time = None
    THEN FALSE
    ELSE now - last_failure_time >= recovery_timeout

\* variant: the failure count survives the reset
reset_keeping_failure_count ==
    /\ state' = "CLOSED"
    /\ failure_count' = failure_count
    /\ success_count' = 0

\* _reset: back to CLOSED with both counters zeroed
reset ==
    /\ state' = "CLOSED"
    /\ failure_count' = 0
    /\ success_count' = 0

\* variant: successes are counted and the circuit is never closed
record_success_never_resets ==
    IF state = "HALF_OPEN"
    THEN /\ success_count' = Min(success_count + 1, SuccessesToClose)
         /\ UNCHANGED <<state, failure_count, last_failure_time>>
    ELSE UNCHANGED breaker

\* _record_success: counts only while HALF_OPEN; the second success resets
record_success ==
    IF state = "HALF_OPEN"
    THEN IF success_count + 1 >= SuccessesToClose
         THEN reset /\ UNCHANGED last_failure_time
         ELSE /\ success_count' = success_count + 1
              /\ UNCHANGED <<state, failure_count, last_failure_time>>
    ELSE UNCHANGED breaker

\* variant: the circuit opens only above the threshold
record_failure_above_threshold ==
    /\ failure_count' = failure_count + 1
    /\ last_failure_time' = now
    /\ state' = IF state = "HALF_OPEN"
                THEN "OPEN"
                ELSE IF failure_count + 1 > failure_threshold
                     THEN "OPEN"
                     ELSE state
    /\ UNCHANGED success_count

\* variant: a failed probe reopens the circuit without a new time stamp
record_failure_keeps_time_on_probe ==
    /\ failure_count' = failure_count + 1
    /\ last_failure_time' = IF state = "HALF_OPEN" THEN last_failure_time ELSE now
    /\ state' = IF state = "HALF_OPEN"
                THEN "OPEN"
                ELSE IF failure_count + 1 >= failure_threshold
                     THEN "OPEN"
                     ELSE state
    /\ UNCHANGED success_count

\* _record_failure: count, stamp the time, open from HALF_OPEN or at the threshold
record_failure ==
    /\ failure_count' = failure_count + 1
    /\ last_failure_time' = now
    /\ state' = IF state = "HALF_OPEN"
                THEN "OPEN"
                ELSE IF failure_count + 1 >= failure_threshold
                     THEN "OPEN"
                     ELSE state
    /\ UNCHANGED success_count

\* ------------------------------------------------------------ retry loop
\* variant: the exponent counts attempts from one
backoff_delay_from_one(a) == retry_delay * 2^(a + 1)

\* delay = self.retry_delay * (2 ** attempt)
backoff_delay(a) == retry_delay * 2^a

\* if attempt < self.max_retries - 1: the failed attempt is followed by a sleep
sleeps_after(a) == a < max_retries - 1

\* variant: the loop runs over range(self.max_retries + 1)
loop_pc_inclusive(a, o) ==
    IF a <= max_retries
    THEN IF o = "retry_cb" THEN "call_entry" ELSE "func"
    ELSE "exhausted"

\* the position of the next iteration of "for attempt in range(self.max_retries)"
loop_pc(a, o) ==
    IF a < max_retries
    THEN IF o = "retry_cb" THEN "call_entry" ELSE "func"
    ELSE "exhausted"

\* variant: no handler for CircuitBreakerOpenException, it is retried like the rest
retry_handler_retries_circuit_open(o) ==
    /\ outcomes' = Append(outcomes, o)
    /\ IF o.kind \in {"err", "open"}
       THEN /\ last_exception' = o.val
            /\ IF sleeps_after(attempt)
               THEN pc' = "sleep" /\ UNCHANGED attempt
               ELSE pc' = loop_pc(attempt + 1, op) /\ attempt' = attempt + 1
            /\ UNCHANGED result
       ELSE /\ result' = o
            /\ pc' = "done"
            /\ UNCHANGED <<attempt, last_exception>>

\* variant: last_exception keeps the first exception seen
retry_handler_keeps_first_exception(o) ==
    /\ outcomes' = Append(outcomes, o)
    /\ IF o.kind = "err"
       THEN /\ last_exception' = IF last_exception = None THEN o.val ELSE last_exception
            /\ IF sleeps_after(attempt)
               THEN pc' = "sleep" /\ UNCHANGED attempt
               ELSE pc' = loop_pc(attempt + 1, op) /\ attempt' = attempt + 1
            /\ UNCHANGED result
       ELSE /\ result' = o
            /\ pc' = "done"
            /\ UNCHANGED <<attempt, last_exception>>

\* the handlers of the try statement around "return func(*args, **kwargs)"
retry_handler(o) ==
    /\ outcomes' = Append(outcomes, o)
    /\ IF o.kind = "err"
       THEN /\ last_exception' = o.val
            /\ IF sleeps_after(attempt)
               THEN pc' = "sleep" /\ UNCHANGED attempt
               ELSE pc' = loop_pc(attempt + 1, op) /\ attempt' = attempt + 1
            /\ UNCHANGED result
       ELSE /\ result' = o
            /\ pc' = "done"
            /\ UNCHANGED <<attempt, last_exception>>

\* after the loop: raise last_exception, or the generic exception when there is none
raise_after_loop ==
    IF last_exception # None THEN Raised(last_exception) ELSE AllFailed

\* an outcome of the function an operation wraps reaches the operation's caller
\* (direct call) or the retry loop's handlers
deliver(o) ==
    IF op = "call"
    THEN /\ result' = o
         /\ pc' = "done"
         /\ UNCHANGED <<attempt, last_exception, outcomes>>
    ELSE retry_handler(o)

\* sleep time _retry_with_backoff still needs from attempt a on
RECURSIVE backoff_left(_)
backoff_left(a) ==
    IF sleeps_after(a) THEN backoff_delay(a) + backoff_left(a + 1) ELSE 0

\* time the running operation still has to spend asleep
reserved ==
    IF op \in {"retry", "retry_cb"} /\ pc \in {"call_entry", "func", "sleep"}
    THEN backoff_left(attempt)
    ELSE 0

\* ------------------------------------------------------------ actions
\* the clock advances between operations and while the wrapped function runs
Tick ==
    /\ UNCHANGED outside_resilience
    /\ pc \in {"idle", "func"}
    /\ now + 1 + reserved <= MaxTime
    /\ now' = now + 1
    /\ UNCHANGED <<config, breaker, attempt, last_exception, op, pc, result, outcomes,
                   sleeps, invoked, rejected, entry_state, call_invoked, history>>

\* breaker.call(func) by a caller
StartCall ==
    /\ UNCHANGED outside_resilience
    /\ pc = "idle"
    /\ op' = "call"
    /\ pc' = "call_entry"
    /\ UNCHANGED <<config, breaker, attempt, last_exception, now, result, outcomes,
                   sleeps, invoked, rejected, entry_state, call_invoked, history>>

\* _retry_with_backoff(func) entered with wrapped function kind o: "retry" for
\* a plain function, "retry_cb" for breaker.call of one
enter_retry(o) ==
    /\ UNCHANGED outside_resilience
    /\ pc = "idle"
    /\ now + backoff_left(0) <= MaxTime
    /\ op' = o
    /\ pc' = loop_pc(0, o)
    /\ attempt' = 0
    /\ last_exception' = None
    /\ UNCHANGED <<config, breaker, now, result, outcomes, sleeps, invoked, rejected,
                   entry_state, call_invoked, history>>

\* _retry_with_backoff around a plain function
StartRetry == enter_retry("retry")

\* _retry_with_backoff around breaker.call
StartGuardedRetry == enter_retry("retry_cb")

\* variant: a rejection is recorded like a failure of the wrapped function
CallEntry_recording_rejections ==
    /\ UNCHANGED outside_resilience
    /\ pc = "call_entry"
    /\ entry_state' = state
    /\ call_invoked' = 0
    /\ IF state = "OPEN"
       THEN IF can_attempt_reset
            THEN /\ state' = "HALF_OPEN"
                 /\ pc' = "func"
                 /\ UNCHANGED <<failure_count, success_count, last_failure_time, attempt,
                                last_exception, result, outcomes, rejected>>
            ELSE /\ rejected' = rejected + 1
                 /\ deliver(CircuitOpen)
                 /\ last_failure_time' = now
                 /\ UNCHANGED <<state, failure_count, success_count>>
       ELSE /\ pc' = "func"
            /\ UNCHANGED <<breaker, attempt, last_exception, result, outcomes, rejected>>
    /\ UNCHANGED <<config, now, op, sleeps, invoked, history>>

\* CircuitBreaker.call up to the try statement: admit, probe or reject
CallEntry ==
    /\ UNCHANGED outside_resilience
    /\ pc = "call_entry"
    /\ entry_state' = state
    /\ call_invoked' = 0
    /\ IF state = "OPEN"
       THEN IF can_attempt_reset
            THEN /\ state' = "HALF_OPEN"
                 /\ pc' = "func"
                 /\ UNCHANGED <<failure_count, success_count, last_failure_time, attempt,
                                last_exception, result, outcomes, rejected>>
            ELSE /\ rejected' = rejected + 1
                 /\ deliver(CircuitOpen)
                 /\ UNCHANGED breaker
       ELSE /\ pc' = "func"
            /\ UNCHANGED <<breaker, attempt, last_exception, result, outcomes, rejected>>
    /\ UNCHANGED <<config, now, op, sleeps, invoked, history>>

\* the wrapped function returns v
FuncReturns ==
    /\ UNCHANGED outside_resilience
    /\ pc = "func"
    /\ \E v \in Results : deliver(Returned(v))
    /\ invoked' = invoked + 1
    /\ IF op = "retry"
       THEN UNCHANGED <<breaker, call_invoked, history>>
       ELSE /\ record_success
            /\ call_invoked' = call_invoked + 1
            /\ succ_run' = Min(succ_run + 1, SuccessesToClose)
            /\ fail_run' = 0
            /\ UNCHANGED <<failures_ever, last_fail_from, last_fail_at>>
    /\ UNCHANGED <<config, now, op, sleeps, rejected, entry_state>>

\* the wrapped function raises exception e (an instance of expected_exception)
FuncRaises ==
    /\ UNCHANGED outside_resilience
    /\ pc = "func"
    /\ \E e \in Errors : deliver(Raised(e))
    /\ invoked' = invoked + 1
    /\ IF op = "retry"
       THEN UNCHANGED <<breaker, call_invoked, history>>
       ELSE /\ failure_count < failure_threshold + MaxExtraFailures
            /\ record_failure
            /\ call_invoked' = call_invoked + 1
            /\ succ_run' = 0
            /\ fail_run' = fail_run + 1
            /\ failures_ever' = Min(failures_ever + 1, failure_threshold)
            /\ last_fail_from' = state
            /\ last_fail_at' = now
    /\ UNCHANGED <<config, now, op, sleeps, rejected, entry_state>>

\* a plain function under retry raises CircuitBreakerOpenException itself
FuncRaisesCircuitOpen ==
    /\ UNCHANGED outside_resilience
    /\ pc = "func"
    /\ op = "retry"
    /\ deliver(CircuitOpen)
    /\ invoked' = invoked + 1
    /\ UNCHANGED <<config, breaker, now, op, sleeps, rejected, entry_state,
                   call_invoked, history>>

\* time.sleep(delay) between two attempts
Sleep ==
    /\ UNCHANGED outside_resilience
    /\ pc = "sleep"
    /\ sleeps' = Append(sleeps, backoff_delay(attempt))
    /\ now' = now + backoff_delay(attempt)
    /\ attempt' = attempt + 1
    /\ pc' = loop_pc(attempt + 1, op)
    /\ UNCHANGED <<config, breaker, last_exception, op, result, outcomes, invoked,
                   rejected, entry_state, call_invoked, history>>

\* the loop is over without a return
Exhausted ==
    /\ UNCHANGED outside_resilience
    /\ pc = "exhausted"
    /\ result' = raise_after_loop
    /\ pc' = "done"
    /\ UNCHANGED <<config, breaker, attempt, last_exception, now, op, outcomes, sleeps,
                   invoked, rejected, entry_state, call_invoked, history>>

\* the caller has the operation's result; the next operation starts afresh
Finish ==
    /\ UNCHANGED outside_resilience
    /\ pc = "done"
    /\ pc' = "idle"
    /\ op' = "none"
    /\ result' = NoResult
    /\ attempt' = 0
    /\ last_exception' = None
    /\ outcomes' = << >>
    /\ sleeps' = << >>
    /\ invoked' = 0
    /\ rejected' = 0
    /\ entry_state' = "none"
    /\ call_invoked' = 0
    /\ UNCHANGED <<config, breaker, now, history>>

OperationStep ==
    \/ FuncReturns
    \/ FuncRaises
    \/ FuncRaisesCircuitOpen
    \/ Sleep
    \/ Exhausted
    \/ Finish

\* the breaker, called directly and under the retry loop
Next ==
    \/ Tick
    \/ StartCall
    \/ StartGuardedRetry
    \/ CallEntry
    \/ FuncReturns
    \/ FuncRaises
    \/ Sleep
    \/ Exhausted
    \/ Finish

Spec == Init /\ [][Next]_vars

\* the retry loop around plain functions, as EmbeddingService uses it: the
\* breaker is constructed and never called
RetryInit ==
    /\ Init
    /\ failure_threshold = 1
    /\ recovery_timeout = 1

RetryNext ==
    \/ Tick
    \/ StartRetry
    \/ FuncReturns
    \/ FuncRaises
    \/ FuncRaisesCircuitOpen
    \/ Sleep
    \/ Exhausted
    \/ Finish

RetrySpec == RetryInit /\ [][RetryNext]_vars

\* a started operation runs on: the caller is synchronous, the wrapped function
\* returns or raises, and time.sleep returns
RetryFairSpec == RetrySpec /\ WF_vars(OperationStep)

TypeOK ==
    /\ state \in {"CLOSED", "OPEN", "HALF_OPEN"}
    /\ failure_count \in 0..(failure_threshold + MaxExtraFailures)
    /\ success_count \in 0..SuccessesToClose
    /\ last_failure_time \in {None} \cup (0..MaxTime)
    /\ now \in 0..MaxTime
    /\ attempt \in 0..MaxRetries
    /\ pc \in {"idle", "call_entry", "func", "sleep", "exhausted", "done"}
    /\ op \in {"none", "call", "retry", "retry_cb"}

\* ------------------------------------------------------------ claims
IsRetry == op \in {"retry", "retry_cb"}
TimeoutPending == last_failure_time = None \/ now - last_failure_time < recovery_timeout
TimeoutElapsed == last_failure_time # None /\ now - last_failure_time >= recovery_timeout
LastOutcome == outcomes[Len(outcomes)]

\* C1: while the breaker is OPEN and less than recovery_timeout has passed since
\* last_failure_time, a CircuitBreaker.call raises CircuitBreakerOpenException
\* and does not invoke the wrapped function.
C1_OpenRejectsWithoutInvoking ==
    [][(pc = "call_entry" /\ state = "OPEN" /\ TimeoutPending /\ pc' # pc)
         => /\ rejected' = rejected + 1
            /\ invoked' = invoked
            /\ call_invoked' = 0
            /\ IF op = "call"
               THEN result' = CircuitOpen /\ pc' = "done"
               ELSE outcomes' = Append(outcomes, CircuitOpen)
            /\ state' = "OPEN"]_vars

C1_Witness ==
    /\ pc = "done" /\ op = "call"
    /\ result = CircuitOpen /\ rejected = 1 /\ invoked = 0
    /\ state = "OPEN" /\ now > last_failure_time

\* C2: from a fresh CLOSED breaker with failure_threshold = N >= 1, the breaker
\* is CLOSED after fewer than N failing calls, and the N-th consecutive failing
\* call leaves it OPEN with last_failure_time the time of that failure.
C2_ThresholdOpens ==
    /\ [](failures_ever < failure_threshold => state = "CLOSED")
    /\ [][(fail_run' = fail_run + 1 /\ fail_run' = failure_threshold)
            => (state' = "OPEN" /\ last_failure_time' = now)]_vars

C2_Witness ==
    /\ failure_threshold = MaxThreshold
    /\ pc = "done" /\ result.kind = "err"
    /\ fail_run = failure_threshold /\ last_fail_from = "CLOSED"
    /\ state = "OPEN" /\ last_failure_time = now /\ now > 0

\* C3: a call made while OPEN with now - last_failure_time >= recovery_timeout
\* moves the breaker to HALF_OPEN before the wrapped function runs, and the
\* wrapped function is invoked exactly once in that call.
C3_ProbeAfterTimeout ==
    /\ [][(pc = "call_entry" /\ state = "OPEN" /\ TimeoutElapsed /\ pc' # pc)
            => (state' = "HALF_OPEN" /\ pc' = "func" /\ call_invoked' = 0
                /\ rejected' = rejected)]_vars
    /\ []((pc = "func" /\ entry_state = "OPEN") => (state = "HALF_OPEN" /\ call_invoked = 0))
    /\ [][(pc = "func" /\ pc' # "func" /\ entry_state = "OPEN") => call_invoked' = 1]_vars

C3_Witness ==
    /\ pc = "done" /\ op = "call"
    /\ entry_state = "OPEN" /\ call_invoked = 1 /\ invoked = 1 /\ rejected = 0
    /\ now - last_fail_at = recovery_timeout

\* C4: the breaker goes from HALF_OPEN to CLOSED only after two consecutive
\* successful calls (no failed call between them), and right after that
\* transition the failure counter and the success counter are zero.
C4_ClosesAfterTwoConsecutiveSuccesses ==
    [][(state = "HALF_OPEN" /\ state' = "CLOSED")
         => (succ_run' >= 2 /\ failure_count' = 0 /\ success_count' = 0)]_vars

\* C5: a failing call made while HALF_OPEN leaves the breaker OPEN with
\* last_failure_time the time of that failure, so the next call is admitted
\* only after a full recovery_timeout has passed since that failure.
C5_HalfOpenFailureReopens ==
    /\ [][(pc = "func" /\ state = "HALF_OPEN" /\ fail_run' = fail_run + 1)
            => (state' = "OPEN" /\ last_failure_time' = now)]_vars
    /\ []((pc = "func" /\ entry_state = "OPEN" /\ last_fail_from = "HALF_OPEN")
            => now - last_fail_at >= recovery_timeout)
    /\ [][(pc = "call_entry" /\ state = "OPEN" /\ last_fail_from = "HALF_OPEN"
           /\ now - last_fail_at < recovery_timeout /\ pc' # pc)
            => (rejected' = rejected + 1 /\ invoked' = invoked)]_vars

C5_Witness ==
    /\ pc = "done" /\ op = "call"
    /\ result = CircuitOpen /\ rejected = 1 /\ invoked = 0
    /\ state = "OPEN" /\ last_fail_from = "HALF_OPEN"
    /\ last_failure_time = last_fail_at /\ now > last_fail_at

\* C6: the counter that drives CLOSED to OPEN counts consecutive failures: a
\* successful call in CLOSED restarts it, so the breaker opens only when
\* failure_threshold failing calls occur with no successful call between them.
C6_OpensOnlyOnConsecutiveFailures ==
    [][(state = "CLOSED" /\ state' = "OPEN") => fail_run' >= failure_threshold]_vars

AllErrors(n) == \A i \in 1..n : outcomes[i].kind = "err"
ErrorsSoFar == Cardinality({i \in 1..Len(outcomes) : outcomes[i].kind = "err"})

\* C7: for max_retries >= 1 a _retry_with_backoff operation terminates, invokes
\* the wrapped function at least once and at most max_retries times, and stops
\* at the first successful attempt, returning that attempt's result.
C7_RetryTerminatesWithinBudget ==
    /\ []((IsRetry /\ max_retries >= 1) => Len(outcomes) <= max_retries)
    /\ []((IsRetry /\ max_retries >= 1 /\ pc = "done") => Len(outcomes) >= 1)
    /\ [](IsRetry => AllErrors(Len(outcomes) - 1))
    /\ []((IsRetry /\ Len(outcomes) >= 1 /\ LastOutcome.kind = "ok")
            => (pc = "done" /\ result = LastOutcome))
    /\ ((IsRetry /\ max_retries >= 1) ~> (pc = "done"))

C7_Witness ==
    /\ pc = "done" /\ op = "retry"
    /\ max_retries = MaxRetries
    /\ Len(outcomes) = 2 /\ outcomes[1].kind = "err"
    /\ result = Returned(2) /\ invoked = 2

\* C8: an attempt that raises CircuitBreakerOpenException makes
\* _retry_with_backoff propagate it at once, with no sleep and no further
\* attempt; a retry around the breaker started while the breaker is OPEN
\* (timeout not elapsed) yields one rejection and no invocation of the function.
C8_CircuitOpenIsNotRetried ==
    /\ [][(IsRetry /\ outcomes' = Append(outcomes, CircuitOpen))
            => (pc' = "done" /\ result' = CircuitOpen /\ sleeps' = sleeps)]_vars
    /\ []((IsRetry /\ Len(outcomes) >= 1 /\ LastOutcome = CircuitOpen) => pc = "done")
    /\ [][(op = "retry_cb" /\ pc = "call_entry" /\ attempt = 0 /\ state = "OPEN"
           /\ TimeoutPending /\ pc' # pc)
            => (/\ pc' = "done" /\ result' = CircuitOpen
                /\ rejected' = 1 /\ invoked' = 0
                /\ Len(outcomes') = 1 /\ sleeps' = << >>)]_vars

C8_Witness ==
    /\ pc = "done" /\ op = "retry_cb"
    /\ max_retries = MaxRetries
    /\ result = CircuitOpen /\ outcomes = <<CircuitOpen>>
    /\ rejected = 1 /\ invoked = 0 /\ sleeps = << >>

\* C9: when all max_retries attempts fail with errors other than CircuitOpen,
\* the error that reaches the caller is the one the last attempt raised.
C9_LastErrorPropagates ==
    (IsRetry /\ pc = "done" /\ max_retries >= 1
     /\ Len(outcomes) = max_retries /\ AllErrors(max_retries))
        => result = outcomes[max_retries]

C9_Witness ==
    /\ pc = "done" /\ op = "retry"
    /\ max_retries = MaxRetries
    /\ Len(outcomes) = max_retries /\ AllErrors(max_retries)
    /\ outcomes[1] = Raised(1) /\ LastOutcome = Raised(2)
    /\ result = Raised(2)

\* C10: between the failed attempt with 0-based index i and the next attempt
\* _retry_with_backoff sleeps retry_delay * 2^i, and it does not sleep after
\* the final failed attempt.
C10_BackoffSchedule ==
    (IsRetry /\ max_retries >= 1) =>
        /\ \A i \in 1..Len(sleeps) : sleeps[i] = retry_delay * 2^(i - 1)
        /\ Len(sleeps) = IF pc = "sleep"
                         THEN ErrorsSoFar - 1
                         ELSE Min(ErrorsSoFar, max_retries - 1)
        /\ (pc = "sleep" => ErrorsSoFar < max_retries)

C10_Witness ==
    /\ pc = "done" /\ op = "retry"
    /\ max_retries = 3
    /\ sleeps = <<1, 2>> /\ ErrorsSoFar = 3
    /\ result.kind = "err"

\* ============================================================ embedcore_v3.py
\* Numbers are floating-point values counted in steps of 1/(10000 * Scale): Unit
\* steps make 1.0.  A float keeps SigBits significant bits, and every
\* arithmetic result is rounded to the nearest float, ties to even.
Unit == 10000 * Scale

\* the tests' tolerance of 1e-10, as a number of steps
Tolerance == Scale

Abs(x) == IF x < 0 THEN 0 - x ELSE x

\* spacing of the floats around magnitude a
RECURSIVE ulp_at(_, _)
ulp_at(a, u) == IF a < (2^SigBits) * u THEN u ELSE ulp_at(a, 2 * u)

round_half_even(a, u) ==
    LET q == a \div u
        r == a % u
    IN IF 2 * r < u \/ (2 * r = u /\ q % 2 = 0) THEN q * u ELSE (q + 1) * u

\* the float nearest to the exact value x
fl(x) == IF x >= 0 THEN round_half_even(x, ulp_at(x, 1))
                   ELSE 0 - round_half_even(0 - x, ulp_at(0 - x, 1))

fadd(a, b) == fl(a + b)
fsub(a, b) == fl(a - b)

\* Fernet-format keys and int(sha256(key).hexdigest()[:8], 16) of each
Keys == {"AAAAAAAAAAAAAAAAAAAAAAAAAAAAAAAAAAAAAAAAAAA=",
         "AAAAAAAAAAAAAAAAAAAAAAAAAAAAAAAAAAAAAAAAAAE=",
         "AAAAAAAAAAAAAAAAAAAAAAAAAAAAAAAAAAAAAAAAAEI=",
         "AAAAAAAAAAAAAAAAAAAAAAAAAAAAAAAAAAAAAAAAAG4=",
         "AAAAAAAAAAAAAAAAAAAAAAAAAAAAAAAAAAAAAAAAAAM=",
         "AAAAAAAAAAAAAAAAAAAAAAAAAAAAAAAAAAAAAAAAAAQ="}

sha256_prefix(k) ==
    CASE k = "AAAAAAAAAAAAAAAAAAAAAAAAAAAAAAAAAAAAAAAAAAA=" -> 1365524140
      [] k = "AAAAAAAAAAAAAAAAAAAAAAAAAAAAAAAAAAAAAAAAAAE=" -> 1163313513
      [] k = "AAAAAAAAAAAAAAAAAAAAAAAAAAAAAAAAAAAAAAAAAEI=" -> 911930914
      [] k = "AAAAAAAAAAAAAAAAAAAAAAAAAAAAAAAAAAAAAAAAAG4=" -> 2052980914
      [] k = "AAAAAAAAAAAAAAAAAAAAAAAAAAAAAAAAAAAAAAAAAAM=" -> 42804528
      [] k = "AAAAAAAAAAAAAAAAAAAAAAAAAAAAAAAAAAAAAAAAAAQ=" -> 1929453457

\* seed = int(key_hash[:8], 16) % (2**32); the prefix has 32 bits already
key_seed(k) == sha256_prefix(k)

\* transform_val = (seed % 1000) / 10000.0 - 0.05
transform_val(k) ==
    fsub(fl(((key_seed(k) % 1000) * Unit) \div 10000), fl(Unit \div 20))

\* variant: the offset is added back instead of subtracted
restore_component_adds(val, k) == fadd(val, transform_val(k))

\* original_embedding[i] = val - transform_val
restore_component(val, k) == fsub(val, transform_val(k))

\* obfuscate(embedding, user_key) for a list of numbers and a string
obfuscate(v, k) ==
    IF Len(v) = 0
    THEN ValueError
    ELSE Vector([i \in 1..Len(v) |-> fadd(v[i], transform_val(k))])

\* deobfuscate(obf_embedding, user_key) for a list of numbers and a string
deobfuscate(v, k) ==
    IF Len(v) = 0
    THEN ValueError
    ELSE Vector([i \in 1..Len(v) |-> restore_component(v[i], k)])

\* components of the vectors handed to the transform: zero, the ends and the
\* inside of the unit range, larger magnitudes, values next to a power of two
Components ==
    {fl(x) : x \in {0, Unit, 0 - Unit, Unit \div 2, 0 - (Unit \div 4),
                    2^(SigBits + 1) - 2, 4 * Unit, 0 - (9 * Unit),
                    2^(SigBits + 5) - 64}}

RECURSIVE SeqsUpTo(_, _)
SeqsUpTo(S, n) ==
    IF n = 0 THEN {<< >>}
    ELSE LET shorter == SeqsUpTo(S, n - 1)
         IN shorter \cup {Append(q, x) : q \in shorter, x \in S}

Vectors == SeqsUpTo(Components, MaxLen)

\* the resilience layer is constructed and never used
ResilienceIdle ==
    /\ ResilienceInit
    /\ failure_threshold = 1
    /\ recovery_timeout = 1
    /\ max_retries = 0

\* a caller holds a vector and two keys
TransformInit ==
    /\ ResilienceIdle
    /\ embedding \in Vectors
    /\ user_key \in Keys
    /\ other_key \in Keys
    /\ obfuscated = NoVector
    /\ other_obfuscated = NoVector
    /\ restored = NoVector
    /\ GeneratorIdle
    /\ VaultIdle
    /\ PipelineIdle
    /\ ServiceIdle

\* obfuscated = obfuscate(embedding, user_key)
Obfuscate ==
    /\ obfuscated = NoVector
    /\ obfuscated' = obfuscate(embedding, user_key)
    /\ UNCHANGED <<embedding, user_key, other_key, other_obfuscated, restored>>
    /\ UNCHANGED outside_transform

\* other_obfuscated = obfuscate(embedding, other_key)
ObfuscateOther ==
    /\ other_obfuscated = NoVector
    /\ other_obfuscated' = obfuscate(embedding, other_key)
    /\ UNCHANGED <<embedding, user_key, other_key, obfuscated, restored>>
    /\ UNCHANGED outside_transform

\* restored = deobfuscate(obfuscated, user_key)
Deobfuscate ==
    /\ obfuscated.kind = "ok"
    /\ restored = NoVector
    /\ restored' = deobfuscate(obfuscated.val, user_key)
    /\ UNCHANGED <<embedding, user_key, other_key, obfuscated, other_obfuscated>>
    /\ UNCHANGED outside_transform

TransformNext ==
    \/ Obfuscate
    \/ ObfuscateOther
    \/ Deobfuscate

TransformSpec == TransformInit /\ [][TransformNext]_vars

InUnitRange(v) == \A i \in 1..Len(v) : Abs(v[i]) <= Unit

WithinTolerance(v, w) ==
    /\ Len(v) = Len(w)
    /\ \A i \in 1..Len(v) : Abs(v[i] - w[i]) < Tolerance

C13_DistinctKeysDiffer ==
    (obfuscated.kind = "ok" /\ other_obfuscated.kind = "ok" /\ user_key # other_key)
        => obfuscated.val # other_obfuscated.val

\* ------------------------------------------------------------ generate_embedding
Texts == {"", "hello", "world"}
Salts == 0..(NumSalts - 1)

\* the code points of a text, folded
text_code(t) == CASE t = "" -> 0 [] t = "hello" -> 532 [] t = "world" -> 552

\* hash(message_text): the string hash is keyed by the interpreter's salt
\* (PYTHONHASHSEED, random unless set); the empty string hashes to 0
str_hash(salt, t) ==
    IF t = "" THEN 0 ELSE (text_code(t) * 31 + (salt + 1) * 40503) % (2^20)

\* seed = hash(message_text) % (2**32)
text_seed(salt, t) == str_hash(salt, t) % (2^SeedBits)

\* random.seed(seed): the generator's state is a function of the seed
rng_seeded(seed) == seed % 65537

\* one step of the generator
rng_step(x) == (75 * x + 74) % 65537

\* the generator's state after n draws
RECURSIVE rng_after(_, _)
rng_after(x, n) == IF n = 0 THEN x ELSE rng_after(rng_step(x), n - 1)

\* val = random.uniform(-1.0, 1.0) for the i-th draw, in 512ths
uniform_draw(x, i) == (rng_after(x, i) % 1024) - 512

RECURSIVE SumSquares(_, _)
SumSquares(d, n) == IF n = 0 THEN 0 ELSE d[n] * d[n] + SumSquares(d, n - 1)

RECURSIVE isqrt_from(_, _)
isqrt_from(n, r) == IF r * r <= n THEN r ELSE isqrt_from(n, (r + n \div r) \div 2)

\* magnitude = sum(x*x for x in embedding) ** 0.5, in 8192ths
magnitude(d) == isqrt_from(SumSquares(d, Len(d)) * 256, 2^14)

\* embedding = [x / magnitude for x in embedding], else the unit vector
normalise(d) ==
    IF magnitude(d) > 0
    THEN [i \in 1..Len(d) |-> fl((d[i] * Unit * 16) \div magnitude(d))]
    ELSE [i \in 1..Len(d) |-> IF i = 1 THEN fl(Unit) ELSE 0]

\* generate_embedding(message_text) in an interpreter whose salt is salt
generate_embedding(salt, t) ==
    normalise([i \in 1..Dim |-> uniform_draw(rng_seeded(text_seed(salt, t)), i)])

\* an interpreter has started
GeneratorInit ==
    /\ ResilienceIdle
    /\ TransformIdle
    /\ VaultIdle
    /\ PipelineIdle
    /\ ServiceIdle
    /\ hash_salt \in Salts
    /\ rng \in Salts
    /\ message_text = ""
    /\ generated = NoVector
    /\ first_generated = [t \in Texts |-> NoVector]

\* a call generate_embedding(t): it seeds the shared generator and draws from it
GenerateEmbedding ==
    \E t \in Texts :
        /\ message_text' = t
        /\ rng' = rng_after(rng_seeded(text_seed(hash_salt, t)), Dim)
        /\ generated' = Vector(generate_embedding(hash_salt, t))
        /\ first_generated' =
               IF first_generated[t].kind = "none"
               THEN [first_generated EXCEPT ![t] = Vector(generate_embedding(hash_salt, t))]
               ELSE first_generated
        /\ UNCHANGED hash_salt
        /\ UNCHANGED outside_generator

\* the interpreter exits and a new one starts: a new salt, a freshly seeded generator
Restart ==
    /\ hash_salt' \in Salts
    /\ rng' \in Salts
    /\ message_text' = ""
    /\ generated' = NoVector
    /\ UNCHANGED first_generated
    /\ UNCHANGED outside_generator

GeneratorNext ==
    \/ GenerateEmbedding
    \/ Restart

GeneratorSpec == GeneratorInit /\ [][GeneratorNext]_vars

\* C12. For every text, every call of generate_embedding with it returns
\* exactly the vector the first call with it returned, whatever calls were
\* made in between.
C12_SameTextSameVector ==
    generated.kind = "ok" => generated.val = first_generated[message_text].val

\* ============================================================ keystore.py
Instances == 1..NumInstances
Users == {"", "alice", "bob"}

\* self.fernet.encrypt(user_key): a token that only the same master key opens
encrypt(mk, k) == [by |-> mk, of |-> k]

\* self.fernet.decrypt(encrypted_key): the key, or InvalidToken raised
decrypt(mk, token) == IF token.by = mk THEN token.of ELSE "InvalidToken"

\* the keys in one order, and the orders a run may draw them in
KeyOrder ==
    <<"AAAAAAAAAAAAAAAAAAAAAAAAAAAAAAAAAAAAAAAAAAA=",
      "AAAAAAAAAAAAAAAAAAAAAAAAAAAAAAAAAAAAAAAAAAE=",
      "AAAAAAAAAAAAAAAAAAAAAAAAAAAAAAAAAAAAAAAAAEI=",
      "AAAAAAAAAAAAAAAAAAAAAAAAAAAAAAAAAAAAAAAAAG4=",
      "AAAAAAAAAAAAAAAAAAAAAAAAAAAAAAAAAAAAAAAAAAM=",
      "AAAAAAAAAAAAAAAAAAAAAAAAAAAAAAAAAAAAAAAAAAQ=">>

KeyStreams ==
    {[i \in 1..Len(KeyOrder) |-> KeyOrder[((i + d - 1) % Len(KeyOrder)) + 1]] :
         d \in 0..(Len(KeyOrder) - 1)}

\* Fernet.generate_key() returns a key never returned before
FreshKeys == IF issued < Len(key_stream) THEN {key_stream[issued + 1]} ELSE {}

\* a master key a caller derives from a password (_derive_key_from_password)
SuppliedKeys == {"XohImNooBHFR0OVvjcYpJ3NgPQ1qq73WKhHvch0VQtg="}

\* variant: the row is added next to the old one
insert_keeping_old(rows, u, token) ==
    rows \cup {[user_id |-> u, encrypted_key |-> token]}

\* variant: the row replaces every row of the table
insert_replacing_all(rows, u, token) ==
    {[user_id |-> u, encrypted_key |-> token]}

\* INSERT OR REPLACE INTO user_keys (user_id, encrypted_key, updated_at)
insert_or_replace(rows, u, token) ==
    {r \in rows : r.user_id # u} \cup {[user_id |-> u, encrypted_key |-> token]}

\* SELECT encrypted_key FROM user_keys WHERE user_id = ?
select_key(rows, u) == {r \in rows : r.user_id = u}

\* the key in the user's row, whatever master key sealed it
stored_key(rows, u) ==
    IF select_key(rows, u) = {} THEN Absent
    ELSE (CHOOSE r \in select_key(rows, u) : TRUE).encrypted_key.of

\* variant: every construction writes a new master key
get_or_create_master_key_always_new(rows, fresh) ==
    [rows |-> {[id |-> 1, key_data |-> fresh]}, key |-> fresh]

\* _get_or_create_master_key: the table afterwards and the key returned
get_or_create_master_key(rows, fresh) ==
    IF \E r \in rows : r.id = 1
    THEN [rows |-> rows, key |-> (CHOOSE r \in rows : r.id = 1).key_data]
    ELSE [rows |-> rows \cup {[id |-> 1, key_data |-> fresh]}, key |-> fresh]

\* variant: a failed decryption is raised to the caller
get_key_result_raising(rows, mk, u) ==
    IF u = "" THEN "ValueError"
    ELSE IF select_key(rows, u) = {} THEN Absent
    ELSE decrypt(mk, (CHOOSE r \in select_key(rows, u) : TRUE).encrypted_key)

\* variant: the stored key is never found
get_key_result_missing(rows, mk, u) == IF u = "" THEN "ValueError" ELSE Absent

\* what get_key(user_id) returns or raises on an instance holding master key mk
get_key_result(rows, mk, u) ==
    IF u = "" THEN "ValueError"
    ELSE IF select_key(rows, u) = {} THEN Absent
    ELSE LET token == (CHOOSE r \in select_key(rows, u) : TRUE).encrypted_key
         IN IF decrypt(mk, token) = "InvalidToken" THEN Absent ELSE decrypt(mk, token)

\* variant: a missing key is created on the way
rows_after_get_key_creating(rows, mk, u) ==
    IF u # "" /\ select_key(rows, u) = {}
    THEN insert_or_replace(rows, u, encrypt(mk, KeyOrder[1]))
    ELSE rows

\* table user_keys after get_key(user_id): the SELECT writes nothing
rows_after_get_key(rows, mk, u) == rows

\* no database file yet, no KeyStore object
VaultInit ==
    /\ ResilienceIdle
    /\ TransformIdle
    /\ GeneratorIdle
    /\ PipelineIdle
    /\ ServiceIdle
    /\ master_key_rows = {}
    /\ user_key_rows = {}
    /\ instances = [i \in Instances |-> NoInstance]
    /\ key_stream \in KeyStreams
    /\ issued = 0
    /\ calls = 0
    /\ last_call = NoCall
    /\ current_key = [u \in Users |-> [key |-> Absent, master_key |-> Absent]]

\* KeyStore(db_path, master_key): mk is the master_key argument
construct(i, mk) ==
    /\ instances[i] = NoInstance
    /\ calls' = calls + 1
    /\ IF mk = Absent
       THEN \E fresh \in FreshKeys :
              LET made == get_or_create_master_key(master_key_rows, fresh)
              IN /\ master_key_rows' = made.rows
                 /\ instances' = [instances EXCEPT
                                     ![i] = [master_key |-> made.key, supplied |-> FALSE]]
                 /\ issued' = IF made.key = fresh THEN issued + 1 ELSE issued
       ELSE /\ instances' = [instances EXCEPT
                                ![i] = [master_key |-> mk, supplied |-> TRUE]]
            /\ UNCHANGED <<master_key_rows, issued>>
    /\ last_call' = [name |-> "KeyStore", inst |-> i, user_id |-> "",
                     ret |-> instances'[i].master_key, held |-> Absent]
    /\ UNCHANGED <<user_key_rows, key_stream, current_key>>

\* KeyStore.generate_key(user_id) on instance i, called as name
generate_key(i, u, name) ==
    /\ instances[i] # NoInstance
    /\ calls' = calls + 1
    /\ IF u = ""
       THEN /\ last_call' = [name |-> name, inst |-> i, user_id |-> u,
                             ret |-> "ValueError", held |-> Absent]
            /\ UNCHANGED <<user_key_rows, issued, current_key>>
       ELSE \E k \in FreshKeys :
              /\ user_key_rows' = insert_or_replace(user_key_rows, u,
                                      encrypt(instances[i].master_key, k))
              /\ issued' = issued + 1
              /\ current_key' = [current_key EXCEPT
                     ![u] = [key |-> k, master_key |-> instances[i].master_key]]
              /\ last_call' = [name |-> name, inst |-> i, user_id |-> u, ret |-> k,
                               held |-> stored_key(user_key_rows, u)]
    /\ UNCHANGED <<master_key_rows, instances, key_stream>>

\* KeyStore.get_key(user_id) on instance i
get_key(i, u) ==
    /\ instances[i] # NoInstance
    /\ calls' = calls + 1
    /\ user_key_rows' = rows_after_get_key(user_key_rows, instances[i].master_key, u)
    /\ last_call' = [name |-> "get_key", inst |-> i, user_id |-> u,
                     ret |-> get_key_result(user_key_rows, instances[i].master_key, u),
                     held |-> stored_key(user_key_rows, u)]
    /\ UNCHANGED <<master_key_rows, instances, key_stream, issued, current_key>>

Construct ==
    /\ calls < MaxCalls
    /\ \E i \in Instances,
          mk \in {Absent} \cup SuppliedKeys \cup {r.key_data : r \in master_key_rows} :
              construct(i, mk)
    /\ UNCHANGED outside_vault

GenerateKey ==
    /\ calls < MaxCalls
    /\ \E i \in Instances, u \in Users : generate_key(i, u, "generate_key")
    /\ UNCHANGED outside_vault

GetKey ==
    /\ calls < MaxCalls
    /\ \E i \in Instances, u \in Users : get_key(i, u)
    /\ UNCHANGED outside_vault

\* KeyStore.rotate_key(user_id): new_key = self.generate_key(user_id)
RotateKey ==
    /\ calls < MaxCalls
    /\ \E i \in Instances, u \in Users : generate_key(i, u, "rotate_key")
    /\ UNCHANGED outside_vault

VaultNext ==
    \/ Construct
    \/ GenerateKey
    \/ GetKey
    \/ RotateKey

VaultSpec == VaultInit /\ [][VaultNext]_vars

\* the step is a call on a KeyStore object, described by last_call'
IsCall(name) == calls' = calls + 1 /\ last_call'.name = name
Constructed(i) == instances[i] # NoInstance
HasKey(u) == current_key[u].key # Absent

\* C14. After generate_key(u) or rotate_key(u) has returned k, every get_key(u)
\* on an instance holding the same master key returns k, whatever was done
\* for other users since, until the next generate_key or rotate_key for u; and
\* no step removes a user's key record.
C14_GeneratedKeyIsReturned ==
    [][/\ (/\ IsCall("get_key")
           /\ last_call'.user_id # ""
           /\ HasKey(last_call'.user_id)
           /\ instances[last_call'.inst].master_key
                  = current_key[last_call'.user_id].master_key)
          => last_call'.ret = current_key[last_call'.user_id].key
       /\ \A u \in Users :
              select_key(user_key_rows, u) # {} => select_key(user_key_rows', u) # {}
      ]_vars

\* a get_key returned the user's key after another user was given a key later
C14_Witness ==
    /\ last_call.name = "get_key"
    /\ last_call.user_id = "alice"
    /\ last_call.ret = current_key["alice"].key
    /\ last_call.ret # Absent
    /\ HasKey("bob")
    /\ stored_key(user_key_rows, "bob") = key_stream[issued]

\* C15. rotate_key(u) for a user that holds a key: afterwards get_key(u)
\* returns the key rotate_key returned, that key differs from the key held
\* before, no instance retrieves the key held before, and the user has
\* exactly one key record.
C15_RotateOverwrites ==
    [][(IsCall("rotate_key") /\ last_call'.user_id # "" /\ last_call'.held # Absent)
        => LET u == last_call'.user_id
               new == last_call'.ret
               old == stored_key(user_key_rows, u)
           IN /\ get_key_result(user_key_rows',
                                instances[last_call'.inst].master_key, u) = new
              /\ new # old
              /\ \A i \in Instances :
                     Constructed(i) =>
                         get_key_result(user_key_rows', instances[i].master_key, u) # old
              /\ Cardinality(select_key(user_key_rows', u)) = 1
      ]_vars

\* a key was rotated for a user that held one
C15_Witness ==
    /\ last_call.name = "rotate_key"
    /\ last_call.held \in Keys
    /\ last_call.ret \in Keys
    /\ stored_key(user_key_rows, last_call.user_id) = last_call.ret

\* C16. get_key(u) for a user without a key record returns None and writes
\* nothing: the user key records and the master key row are as before.
C16_MissingKeyCreatesNothing ==
    [][(/\ IsCall("get_key")
        /\ last_call'.user_id # ""
        /\ select_key(user_key_rows, last_call'.user_id) = {})
        => /\ last_call'.ret = Absent
           /\ user_key_rows' = user_key_rows
           /\ master_key_rows' = master_key_rows
      ]_vars

\* get_key was called for a user without a record while another user has one
C16_Witness ==
    /\ last_call.name = "get_key"
    /\ last_call.user_id = "bob"
    /\ last_call.held = Absent
    /\ last_call.ret = Absent
    /\ select_key(user_key_rows, "bob") = {}
    /\ select_key(user_key_rows, "alice") # {}

DefaultBuilt == \E i \in Instances : Constructed(i) /\ ~instances[i].supplied

\* C17 as stated. Once a KeyStore has been constructed on a store, the store
\* holds exactly one master-key row.
C17_OneMasterRowOnceInitialized ==
    (\E i \in Instances : Constructed(i)) => Cardinality(master_key_rows) = 1

\* C17 amended. Once a KeyStore has been constructed without an explicit
\* master key on a store, the store holds exactly one master-key row and no
\* later step adds, removes or changes it.
C17_OneMasterRowOnceCreated ==
    [][/\ DefaultBuilt' => Cardinality(master_key_rows') = 1
       /\ DefaultBuilt => master_key_rows' = master_key_rows
      ]_vars

\* after a KeyStore created the master key, a second one loaded it, and keys
\* were generated and rotated
C17_Witness ==
    /\ \A i \in Instances : Constructed(i) /\ ~instances[i].supplied
    /\ Cardinality(master_key_rows) = 1
    /\ last_call.name = "rotate_key"
    /\ last_call.held \in Keys

Callers == Instances
Senders == Users \ {""}

NoMessage == [pc |-> "idle", user_id |-> "", message_text |-> "",
              embedding |-> << >>, user_key |-> Absent]

\* _validate_embedding: the length, not all zero, not uniform (a standard
\* deviation below 1e-6 is a uniform vector at this resolution)
validate_embedding(v) ==
    /\ Len(v) = Dim
    /\ \E i \in 1..Len(v) : v[i] # 0
    /\ \E i \in 1..Len(v) : v[i] # v[1]

\* save_embedding: the table after the INSERT, or as it was when the gate refuses
save_embedding(rows, u, v, key, base) ==
    IF validate_embedding(v)
    THEN rows \cup {[id |-> Cardinality(rows) + 1, user_id |-> u,
                     obfuscated_embedding |-> v, sealed_with |-> key, base |-> base]}
    ELSE rows

\* keystore.py has been imported: the module-level KeyStore() created the
\* master key; no user has a key, nothing is stored
PipelineInit ==
    /\ ResilienceIdle
    /\ ServiceIdle
    /\ TransformIdle
    /\ hash_salt \in Salts
    /\ rng \in Salts
    /\ message_text = ""
    /\ generated = NoVector
    /\ first_generated = [t \in Texts |-> NoVector]
    /\ key_stream \in KeyStreams
    /\ issued = 1
    /\ master_key_rows = {[id |-> 1, key_data |-> key_stream[1]]}
    /\ user_key_rows = {}
    /\ instances = [i \in {0} \cup Callers |->
                       IF i = 0 THEN [master_key |-> key_stream[1], supplied |-> FALSE]
                       ELSE NoInstance]
    /\ calls = 0
    /\ last_call = NoCall
    /\ current_key = [u \in Users |-> [key |-> Absent, master_key |-> Absent]]
    /\ embedding_rows = {}
    /\ procs = [p \in Callers |-> NoMessage]
    /\ messages = 0
    /\ rotations = 0

\* process_message(user_id, session_id, platform, message_text) up to
\* embedding = generate_embedding(message_text)
StartMessage ==
    \E p \in Callers, u \in Senders, t \in Texts :
        /\ procs[p].pc = "idle"
        /\ messages < MaxMessages
        /\ messages' = messages + 1
        /\ rng' = rng_after(rng_seeded(text_seed(hash_salt, t)), Dim)
        /\ procs' = [procs EXCEPT ![p] =
               [pc |-> "keystore", user_id |-> u, message_text |-> t,
                embedding |-> generate_embedding(hash_salt, t), user_key |-> Absent]]
        /\ UNCHANGED <<hash_salt, message_text, generated, first_generated>>
        /\ UNCHANGED <<service_vars, resilience_vars, transform_vars, vault_vars, embedding_rows,
                       rotations>>

\* keystore = KeyStore()
OpenKeyStore ==
    \E p \in Callers :
        /\ procs[p].pc = "keystore"
        /\ construct(p, Absent)
        /\ procs' = [procs EXCEPT ![p].pc = "get_key"]
        /\ UNCHANGED <<service_vars, resilience_vars, transform_vars, generator_vars, embedding_rows,
                       messages, rotations>>

\* user_key_bytes = keystore.get_key(user_id)
FetchKey ==
    \E p \in Callers :
        /\ procs[p].pc = "get_key"
        /\ get_key(p, procs[p].user_id)
        /\ procs' = [procs EXCEPT
               ![p].user_key = last_call'.ret,
               ![p].pc = IF last_call'.ret = Absent THEN "generate_key" ELSE "save"]
        /\ UNCHANGED <<service_vars, resilience_vars, transform_vars, generator_vars, embedding_rows,
                       messages, rotations>>

\* if user_key_bytes is None: user_key_bytes = keystore.generate_key(user_id)
CreateKey ==
    \E p \in Callers :
        /\ procs[p].pc = "generate_key"
        /\ generate_key(p, procs[p].user_id, "generate_key")
        /\ procs' = [procs EXCEPT ![p].user_key = last_call'.ret, ![p].pc = "save"]
        /\ UNCHANGED <<service_vars, resilience_vars, transform_vars, generator_vars, embedding_rows,
                       messages, rotations>>

\* obfuscate, save_embedding, and the return of process_message
SaveEmbedding ==
    \E p \in Callers :
        /\ procs[p].pc = "save"
        /\ embedding_rows' =
               save_embedding(embedding_rows, procs[p].user_id,
                              obfuscate(procs[p].embedding, procs[p].user_key).val,
                              procs[p].user_key, procs[p].embedding)
        /\ procs' = [procs EXCEPT ![p] = NoMessage]
        /\ instances' = [instances EXCEPT ![p] = NoInstance]
        /\ UNCHANGED <<master_key_rows, user_key_rows, key_stream, issued, calls,
                       last_call, current_key>>
        /\ UNCHANGED <<service_vars, resilience_vars, transform_vars, generator_vars, messages,
                       rotations>>

\* keystore.rotate_key(user_id) by an operator, for a user that has a key
RotateUserKey ==
    \E u \in Senders :
        /\ rotations < MaxRotations
        /\ select_key(user_key_rows, u) # {}
        /\ rotations' = rotations + 1
        /\ generate_key(0, u, "rotate_key")
        /\ UNCHANGED <<service_vars, resilience_vars, transform_vars, generator_vars, embedding_rows,
                       procs, messages>>

PipelineNext ==
    \/ StartMessage
    \/ OpenKeyStore
    \/ FetchKey
    \/ CreateKey
    \/ SaveEmbedding
    \/ RotateUserKey

PipelineSpec == PipelineInit /\ [][PipelineNext]_vars

\* C19. Every embedding row written by process_message holds a vector
\* obfuscated with the key that is the user's current key when the row is
\* written, also when several calls for one user run concurrently.
C19_RowsUseCurrentKey ==
    [][\A r \in embedding_rows' \ embedding_rows :
           r.sealed_with = stored_key(user_key_rows, r.user_id)]_vars

\* C20. rotate_key changes no stored embedding row, and de-obfuscating a row
\* of the user with the new key does not give the vector the row was made from.
C20_RotationStrandsRows ==
    [][IsCall("rotate_key")
        => /\ embedding_rows' = embedding_rows
           /\ \A r \in embedding_rows :
                  r.user_id = last_call'.user_id
                      => deobfuscate(r.obfuscated_embedding, last_call'.ret).val # r.base
      ]_vars

\* ============================================================ cache.py
\* the functions wrapped by cached() and the arguments they are called with
Functions == {"f", "g"}
StrArg(s) == [type |-> "str", int |-> 0, str |-> s]
IntArg(n) == [type |-> "int", int |-> n, str |-> ""]
Signatures ==
    {[func |-> "f", args |-> <<StrArg("a"), StrArg("b")>>],
     [func |-> "f", args |-> <<StrArg("a|b")>>],
     [func |-> "g", args |-> <<IntArg(1)>>],
     [func |-> "g", args |-> <<StrArg("1")>>]}
CacheValues == 1..NumValues
Ttls == 1..MaxTtl

\* str(arg)
str(a) == IF a.type = "int" THEN ToString(a.int) ELSE a.str

\* "|".join(key_parts)
RECURSIVE join(_)
join(parts) ==
    IF Len(parts) = 0 THEN ""
    ELSE IF Len(parts) = 1 THEN parts[1]
    ELSE parts[1] \o "|" \o join(Tail(parts))

\* cached: key_parts = [func.__name__] + [str(arg) for arg in args]
cache_key(sig) == join(<<sig.func>> \o [i \in 1..Len(sig.args) |-> str(sig.args[i])])

CacheKeys == {cache_key(sig) : sig \in Signatures}

\* _make_key: hashlib.md5(key.encode()).hexdigest(), its first 7 hex digits
_make_key(k) ==
    CASE k = "f|a|b" -> 174142031
      [] k = "g|1" -> 251046252

\* the ttl each function is decorated with
ttl_of(func) == IF func = "f" THEN 1 ELSE MaxTtl

dict_del(c, d) == [x \in DOMAIN c \ {d} |-> c[x]]
dict_put(c, d, e) == [x \in DOMAIN c \cup {d} |-> IF x = d THEN e ELSE c[x]]

\* time.time() < expiry
is_fresh_inclusive(expiry, t) == t <= expiry

is_fresh(expiry, t) == t < expiry

\* get: what it returns
get_returns(c, en, d, t) ==
    IF en /\ d \in DOMAIN c /\ is_fresh(c[d].expiry, t) THEN c[d].value ELSE None

\* get: the dict it leaves
get_leaves_evicting_all(c, en, d, t) ==
    IF en /\ d \in DOMAIN c /\ ~is_fresh(c[d].expiry, t)
    THEN [x \in {y \in DOMAIN c : is_fresh(c[y].expiry, t)} |-> c[x]]
    ELSE c

get_leaves(c, en, d, t) ==
    IF en /\ d \in DOMAIN c /\ ~is_fresh(c[d].expiry, t) THEN dict_del(c, d) ELSE c

\* set: the dict it leaves
set_leaves(c, en, d, v, t, ttl) ==
    IF en THEN dict_put(c, d, [value |-> v, expiry |-> t + ttl]) ELSE c

\* stats
stats(c, t) ==
    LET valid == Cardinality({d \in DOMAIN c : is_fresh(c[d].expiry, t)})
    IN [total_entries |-> Cardinality(DOMAIN c),
        valid_entries |-> valid,
        expired_entries |-> Cardinality(DOMAIN c) - valid]

NoSet == [value |-> None, expiry |-> None, expired_before |-> None]

\* cache.py has been imported: cache_manager = CacheManager()
CacheInit ==
    /\ ResilienceIdle
    /\ TransformIdle
    /\ GeneratorIdle
    /\ VaultIdle
    /\ PipelineIdle
    /\ FacadeIdle
    /\ IntakeIdle
    /\ SharedIdle
    /\ _cache = << >>
    /\ enabled = TRUE
    /\ clock = 0
    /\ cache_ops = 0
    /\ cache_call = NoCacheCall
    /\ last_set = [k \in CacheKeys |-> NoSet]
    /\ stored_by = << >>

\* the ghost of the latest set per key, after a set of k that stores
set_noted(k, v, ttl) ==
    IF enabled
    THEN [last_set EXCEPT ![k] = [value |-> v, expiry |-> clock + ttl,
                                  expired_before |-> stats(_cache, clock).expired_entries]]
    ELSE last_set

\* time passes
Advance ==
    /\ clock < MaxClock
    /\ clock' = clock + 1
    /\ UNCHANGED <<_cache, enabled, cache_ops, cache_call, last_set, stored_by>>
    /\ UNCHANGED outside_cache

\* cache_manager.enabled = not cache_manager.enabled
SetEnabled ==
    /\ cache_ops < MaxCacheOps
    /\ cache_ops' = cache_ops + 1
    /\ enabled' = ~enabled
    /\ cache_call' = [NoCacheCall EXCEPT !.name = "enabled"]
    /\ UNCHANGED <<_cache, clock, last_set, stored_by>>
    /\ UNCHANGED outside_cache

\* cache_manager.set(k, v, ttl)
Set ==
    \E k \in CacheKeys, v \in CacheValues, ttl \in Ttls :
        /\ cache_ops < MaxCacheOps
        /\ cache_ops' = cache_ops + 1
        /\ _cache' = set_leaves(_cache, enabled, _make_key(k), v, clock, ttl)
        /\ cache_call' = [NoCacheCall EXCEPT !.name = "set", !.key = k, !.ok = enabled]
        /\ last_set' = set_noted(k, v, ttl)
        /\ stored_by' = IF enabled THEN dict_put(stored_by, _make_key(k), NoSig)
                        ELSE stored_by
        /\ UNCHANGED <<enabled, clock>>
        /\ UNCHANGED outside_cache

\* cache_manager.get(k)
Get ==
    \E k \in CacheKeys :
        /\ cache_ops < MaxCacheOps
        /\ cache_ops' = cache_ops + 1
        /\ _cache' = get_leaves(_cache, enabled, _make_key(k), clock)
        /\ cache_call' = [NoCacheCall EXCEPT
               !.name = "get", !.key = k,
               !.ret = get_returns(_cache, enabled, _make_key(k), clock)]
        /\ stored_by' = [d \in DOMAIN _cache' |-> stored_by[d]]
        /\ UNCHANGED <<enabled, clock, last_set>>
        /\ UNCHANGED outside_cache

\* cache_manager.delete(k)
Delete ==
    \E k \in CacheKeys :
        /\ cache_ops < MaxCacheOps
        /\ cache_ops' = cache_ops + 1
        /\ _cache' = dict_del(_cache, _make_key(k))
        /\ cache_call' = [NoCacheCall EXCEPT !.name = "delete", !.key = k,
                                             !.ok = (_make_key(k) \in DOMAIN _cache)]
        /\ last_set' = [last_set EXCEPT ![k] = NoSet]
        /\ stored_by' = [d \in DOMAIN _cache' |-> stored_by[d]]
        /\ UNCHANGED <<enabled, clock>>
        /\ UNCHANGED outside_cache

\* cache_manager.flush()
Flush ==
    /\ cache_ops < MaxCacheOps
    /\ cache_ops' = cache_ops + 1
    /\ _cache' = << >>
    /\ cache_call' = [NoCacheCall EXCEPT !.name = "flush"]
    /\ last_set' = [k \in CacheKeys |-> NoSet]
    /\ stored_by' = << >>
    /\ UNCHANGED <<enabled, clock>>
    /\ UNCHANGED outside_cache

\* cache_manager.stats()
Stats ==
    /\ cache_ops < MaxCacheOps
    /\ cache_ops' = cache_ops + 1
    /\ cache_call' = [NoCacheCall EXCEPT !.name = "stats", !.stats = stats(_cache, clock)]
    /\ UNCHANGED <<_cache, enabled, clock, last_set, stored_by>>
    /\ UNCHANGED outside_cache

\* a call of a function wrapped by cached(ttl): wrapper
CachedCall ==
    \E sig \in Signatures, func_result \in CacheValues \cup {None} :
        LET k == cache_key(sig)
            d == _make_key(k)
            cached_result == get_returns(_cache, enabled, d, clock)
            looked == get_leaves(_cache, enabled, d, clock)
        IN /\ cache_ops < MaxCacheOps
           /\ cache_ops' = cache_ops + 1
           /\ IF cached_result # None
              THEN /\ func_result = 1
                   /\ _cache' = looked
                   /\ cache_call' = [NoCacheCall EXCEPT
                          !.name = "cached", !.key = k, !.sig = sig,
                          !.ret = cached_result, !.hit = TRUE, !.by = stored_by[d]]
                   /\ UNCHANGED <<last_set, stored_by>>
              ELSE /\ _cache' = set_leaves(looked, enabled, d, func_result, clock,
                                           ttl_of(sig.func))
                   /\ cache_call' = [NoCacheCall EXCEPT
                          !.name = "cached", !.key = k, !.sig = sig,
                          !.ret = func_result, !.invoked = TRUE]
                   /\ last_set' = set_noted(k, func_result, ttl_of(sig.func))
                   /\ stored_by' = IF enabled
                                   THEN dict_put([x \in DOMAIN looked |-> stored_by[x]],
                                                 d, sig)
                                   ELSE stored_by
           /\ UNCHANGED <<enabled, clock>>
           /\ UNCHANGED outside_cache

CacheNext ==
    \/ Advance
    \/ SetEnabled
    \/ Set
    \/ Get
    \/ Delete
    \/ Flush
    \/ Stats

CacheSpec == CacheInit /\ [][CacheNext]_vars

\* the cache as the wrapped functions use it
CachedNext ==
    \/ Advance
    \/ CachedCall
    \/ Flush

CachedSpec == CacheInit /\ [][CachedNext]_vars

\* this step is a call of the named operation
IsCacheCall(name) == cache_ops' = cache_ops + 1 /\ cache_call'.name = name

\* the digests of the entries whose expiry has passed
expired_entries(c, t) == {d \in DOMAIN c : ~is_fresh(c[d].expiry, t)}

\* C21 (as stated). With caching enabled, a get of k after a set of k that no
\* delete or flush followed returns the value of that set while the clock is
\* before the expiry; from the expiry on it returns None, and the
\* expired_entries of stats read after that get exceeds the one read before
\* the set.
C21_FreshThenCountedExpired ==
    [][IsCacheCall("get") /\ enabled /\ last_set[cache_call'.key] # NoSet
        => LET s == last_set[cache_call'.key]
           IN IF clock < s.expiry
              THEN cache_call'.ret = s.value
              ELSE /\ cache_call'.ret = None
                   /\ stats(_cache', clock').expired_entries > s.expired_before
      ]_vars

\* C21 (amended). With caching enabled, a get of k after a set of k that no
\* delete or flush followed returns the value of that set while the clock is
\* before the expiry; from the expiry on it returns None and leaves no entry
\* for k: an entry it found is evicted, so the expired_entries of stats read
\* after the get is one less than read just before it, and is unchanged when
\* an earlier get had evicted the entry.
C21_FreshThenEvicted ==
    [][IsCacheCall("get") /\ enabled /\ last_set[cache_call'.key] # NoSet
        => LET s == last_set[cache_call'.key]
               d == _make_key(cache_call'.key)
           IN IF clock < s.expiry
              THEN cache_call'.ret = s.value
              ELSE /\ cache_call'.ret = None
                   /\ d \notin DOMAIN _cache'
                   /\ stats(_cache', clock').expired_entries
                          = stats(_cache, clock).expired_entries
                              - (IF d \in DOMAIN _cache THEN 1 ELSE 0)
      ]_vars

\* a get has returned None for a key whose latest set still stands: its
\* entry was evicted after the expiry
C21_Witness ==
    /\ cache_call.name = "get"
    /\ cache_call.ret = None
    /\ enabled
    /\ last_set[cache_call.key] # NoSet
    /\ clock >= last_set[cache_call.key].expiry
    /\ _make_key(cache_call.key) \notin DOMAIN _cache

\* C22. With caching enabled, a get of a key whose entry has expired removes
\* that entry and no other; an expired entry is removed or replaced by no
\* step other than a get, delete or set of its key or a flush; stats removes
\* nothing and counts every expired entry in total_entries.
C22_LazyLocalEviction ==
    [][/\ \A d \in expired_entries(_cache, clock) :
              (d \notin DOMAIN _cache' \/ _cache'[d] # _cache[d])
                  => \/ IsCacheCall("flush")
                     \/ /\ cache_ops' = cache_ops + 1
                        /\ cache_call'.name \in {"get", "delete", "set"}
                        /\ _make_key(cache_call'.key) = d
       /\ (IsCacheCall("get") /\ enabled
             /\ _make_key(cache_call'.key) \in expired_entries(_cache, clock))
              => _cache' = dict_del(_cache, _make_key(cache_call'.key))
       /\ IsCacheCall("stats")
              => /\ _cache' = _cache
                 /\ cache_call'.stats.total_entries
                        >= Cardinality(expired_entries(_cache, clock))
      ]_vars

\* a get has evicted the entry of its key while the entry of another key,
\* expired no later, is still in the dict
C22_Witness ==
    /\ cache_call.name = "get"
    /\ enabled
    /\ last_set[cache_call.key] # NoSet
    /\ clock >= last_set[cache_call.key].expiry
    /\ _make_key(cache_call.key) \notin DOMAIN _cache
    /\ \E d \in DOMAIN _cache : _cache[d].expiry <= last_set[cache_call.key].expiry

\* C23. A call through cached() that returns a cached result returns the
\* result stored by a call of the same function with the same arguments.
C23_HitsOnlyOwnSignature ==
    (cache_call.name = "cached" /\ cache_call.hit)
        => cache_call.by = cache_call.sig

\* ============================================================ embedding_service.py
\* the items stored and the texts stored with them; every text is shorter
\* than the 200 characters search_similar_items displays
Items == {[item_type |-> "summary", item_id |-> "s1"],
          [item_type |-> "summary", item_id |-> "s2"],
          [item_type |-> "task", item_id |-> "s1"]}
\* what search_similar_items is asked: a text, a summary, or neither
Queries == {[query_text |-> "hello", summary_id |-> ""],
            [query_text |-> "", summary_id |-> "s1"],
            [query_text |-> "", summary_id |-> ""]}
\* what the stores do during a search
SearchOutcomes == {"ok", "index fails", "database fails"}
ModelDims == {Dim, 2 * Dim}

\* generate_embedding: self.model.encode([text])[0].tolist(), a vector of the
\* length of the configured model (config.MODEL_NAME)
encode(dim, t) == [i \in 1..dim |-> ((text_code(t) \div i) + i) % 5]

RECURSIVE dot(_, _, _)
dot(v1, v2, n) == IF n = 0 THEN 0 ELSE v1[n] * v2[n] + dot(v1, v2, n - 1)

\* cosine_similarity, in 1000ths; np.dot raises on vectors of different
\* lengths and the handler returns 0.0
cosine_similarity(v1, v2) ==
    IF Len(v1) # Len(v2) THEN 0
    ELSE LET n1 == SumSquares(v1, Len(v1))
             n2 == SumSquares(v2, Len(v2))
         IN IF n1 = 0 \/ n2 = 0 THEN 0
            ELSE (dot(v1, v2, Len(v1)) * 1000) \div isqrt_from(n1 * n2, n1 * n2)

\* for attempt in range(self.max_retries)
has_attempt_inclusive(a) == a <= max_retries

has_attempt(a) == a < max_retries

\* INSERT OR REPLACE INTO embeddings: the row of the key goes, the new row
\* is the last of the scan
execute_update(rows, row) ==
    SelectSeq(rows, LAMBDA r : ~(r.item_type = row.item_type /\ r.item_id = row.item_id))
        \o <<row>>

\* VectorDB.upsert_embedding: what the index holds afterwards
upsert_embedding(idx, en, ok, id, values, metadata) ==
    IF en /\ ok
    THEN SelectSeq(idx, LAMBDA r : r.id # id)
             \o <<[id |-> id, values |-> values, metadata |-> metadata]>>
    ELSE idx

\* similarities.sort(key=lambda x: x['score'], reverse=True): a stable sort
RECURSIVE insert_sorted_before_equal(_, _)
insert_sorted_before_equal(sorted, x) ==
    IF sorted = << >> THEN <<x>>
    ELSE IF Head(sorted).score > x.score
         THEN <<Head(sorted)>> \o insert_sorted_before_equal(Tail(sorted), x)
         ELSE <<x>> \o sorted

RECURSIVE insert_sorted(_, _)
insert_sorted(sorted, x) ==
    IF sorted = << >> THEN <<x>>
    ELSE IF Head(sorted).score >= x.score
         THEN <<Head(sorted)>> \o insert_sorted(Tail(sorted), x)
         ELSE <<x>> \o sorted

RECURSIVE sort_by_score(_)
sort_by_score(sims) ==
    IF sims = << >> THEN << >>
    ELSE insert_sorted(sort_by_score(SubSeq(sims, 1, Len(sims) - 1)), sims[Len(sims)])

\* similarities[:top_k], top_k >= 0
first_top_k(sims, top_k) == SubSeq(sims, 1, Min(top_k, Len(sims)))

\* the loop over the rows of SELECT ... FROM embeddings
RECURSIVE scan_similarities(_, _, _)
scan_similarities(rows, query_embedding, summary_id) ==
    IF rows = << >> THEN << >>
    ELSE LET r == Head(rows)
             rest == scan_similarities(Tail(rows), query_embedding, summary_id)
         IN IF r.text_content = "" THEN rest
            ELSE IF summary_id # "" /\ r.item_id = summary_id /\ r.item_type = "summary"
                 THEN rest
                 ELSE <<[item_type |-> r.item_type, item_id |-> r.item_id,
                         score |-> cosine_similarity(query_embedding, r.vector_blob),
                         text |-> r.text_content]>> \o rest

\* the fallback: scan, sort, cut
fallback_search(rows, query_embedding, summary_id, top_k) ==
    first_top_k(sort_by_score(scan_similarities(rows, query_embedding, summary_id)), top_k)

\* VectorDB.query_similar and the formatting of its matches: the index ranks
\* what it holds by cosine similarity, under filter item_id $ne summary_id
RECURSIVE index_similarities(_, _, _)
index_similarities(idx, query_embedding, summary_id) ==
    IF idx = << >> THEN << >>
    ELSE LET r == Head(idx)
             rest == index_similarities(Tail(idx), query_embedding, summary_id)
         IN IF summary_id # "" /\ r.metadata.item_id = summary_id THEN rest
            ELSE <<[item_type |-> r.metadata.item_type, item_id |-> r.metadata.item_id,
                    score |-> cosine_similarity(query_embedding, r.values),
                    text |-> r.metadata.text_content]>> \o rest

query_similar(idx, en, ok, query_embedding, top_k, summary_id) ==
    IF en /\ ok
    THEN first_top_k(sort_by_score(index_similarities(idx, query_embedding, summary_id)),
                     top_k)
    ELSE << >>

\* the text whose embedding is the query: query_text, else the text stored
\* for the summary, else none
query_source(rows, query_text, summary_id) ==
    IF query_text # "" THEN query_text
    ELSE IF summary_id = "" THEN ""
    ELSE LET results == SelectSeq(rows, LAMBDA r : r.item_id = summary_id
                                                   /\ r.item_type = "summary")
         IN IF results = << >> THEN "" ELSE results[1].text_content

\* _search: one attempt, the relational store answering
_search(rows, idx, en, dim, query_text, summary_id, top_k, idx_ok) ==
    LET source == query_source(rows, query_text, summary_id)
        query_embedding == encode(dim, source)
    IN IF source = "" THEN << >>
       ELSE IF en THEN query_similar(idx, en, idx_ok, query_embedding, top_k, summary_id)
       ELSE fallback_search(rows, query_embedding, summary_id, top_k)

\* search_similar_items: _search under _retry_with_backoff; a query of the
\* relational store that fails on every attempt ends in []
search_similar_items(rows, idx, en, dim, query_text, summary_id, top_k, idx_ok, db_ok) ==
    LET reads_table == query_text = "" \/ ~en
    IN IF ~has_attempt(0) THEN << >>
       ELSE IF reads_table /\ ~db_ok /\ (query_text # "" \/ summary_id # "") THEN << >>
       ELSE _search(rows, idx, en, dim, query_text, summary_id, top_k, idx_ok)

\* embedding_service.py has been imported: db_manager.initialize() has
\* created the table, vector_db is configured or not, the model is chosen
FacadeInit ==
    /\ ResilienceInit
    /\ failure_threshold = 1
    /\ recovery_timeout = 1
    /\ max_retries = MaxRetries
    /\ TransformIdle
    /\ GeneratorIdle
    /\ VaultIdle
    /\ PipelineIdle
    /\ CacheIdle
    /\ IntakeIdle
    /\ SharedIdle
    /\ table_rows = << >>
    /\ index_rows = << >>
    /\ vdb_enabled \in BOOLEAN
    /\ model_dim \in ModelDims
    /\ stores = 0
    /\ store_call = NoStore
    /\ search_call = NoSearch

\* store_embedding(item_type, item_id, text) is called
StartStore ==
    \E item \in Items, text \in Texts :
        /\ store_call.pc \in {"idle", "done"}
        /\ stores < MaxStores
        /\ stores' = stores + 1
        /\ store_call' = [NoStore EXCEPT !.pc = "loop", !.item_type = item.item_type,
                                         !.item_id = item.item_id, !.text = text]
        /\ search_call' = NoSearch
        /\ UNCHANGED <<table_rows, index_rows, vdb_enabled, model_dim>>
        /\ UNCHANGED outside_facade

\* an attempt of _store in which db_manager.execute_update raises
StoreAttemptFails ==
    /\ store_call.pc = "loop"
    /\ has_attempt(store_call.attempt)
    /\ store_call' = [store_call EXCEPT !.attempt = @ + 1, !.attempts = @ + 1]
    /\ UNCHANGED <<table_rows, index_rows, vdb_enabled, model_dim, stores, search_call>>
    /\ UNCHANGED outside_facade

\* an attempt of _store in which the relational upsert succeeds: the vector
\* index is upserted when enabled, and _store returns True
StoreAttemptSucceeds ==
    \E idx_ok \in BOOLEAN :
        LET embedding0 == encode(model_dim, store_call.text)
            row == [item_type |-> store_call.item_type, item_id |-> store_call.item_id,
                    vector_blob |-> embedding0, text_content |-> store_call.text]
            metadata == [item_type |-> store_call.item_type,
                         item_id |-> store_call.item_id,
                         text_content |-> store_call.text]
        IN /\ store_call.pc = "loop"
           /\ has_attempt(store_call.attempt)
           /\ vdb_enabled \/ idx_ok
           /\ table_rows' = execute_update(table_rows, row)
           /\ index_rows' = upsert_embedding(index_rows, vdb_enabled, idx_ok,
                                             store_call.item_type \o "_" \o store_call.item_id,
                                             embedding0, metadata)
           /\ store_call' = [store_call EXCEPT
                  !.pc = "done", !.attempts = @ + 1, !.rel_ok = TRUE,
                  !.idx_attempted = vdb_enabled, !.idx_ok = vdb_enabled /\ idx_ok,
                  !.ret = TRUE]
           /\ UNCHANGED <<vdb_enabled, model_dim, stores, search_call>>
           /\ UNCHANGED outside_facade

\* every attempt has failed: _retry_with_backoff raises, store_embedding
\* returns False
StoreExhausted ==
    /\ store_call.pc = "loop"
    /\ ~has_attempt(store_call.attempt)
    /\ store_call' = [store_call EXCEPT !.pc = "done", !.ret = FALSE]
    /\ UNCHANGED <<table_rows, index_rows, vdb_enabled, model_dim, stores, search_call>>
    /\ UNCHANGED outside_facade

\* store_embedding as the callers of the service see it: a whole call that
\* returns True (one that returns False has changed nothing)
Store ==
    \E item \in Items, text \in Texts, idx_ok \in BOOLEAN :
        LET embedding0 == encode(model_dim, text)
            row == [item_type |-> item.item_type, item_id |-> item.item_id,
                    vector_blob |-> embedding0, text_content |-> text]
            metadata == [item_type |-> item.item_type, item_id |-> item.item_id,
                         text_content |-> text]
        IN /\ stores < MaxServiceCalls
           /\ stores' = stores + 1
           /\ has_attempt(0)
           /\ vdb_enabled \/ idx_ok
           /\ table_rows' = execute_update(table_rows, row)
           /\ index_rows' = upsert_embedding(index_rows, vdb_enabled, idx_ok,
                                             item.item_type \o "_" \o item.item_id,
                                             embedding0, metadata)
           /\ search_call' = NoSearch
           /\ UNCHANGED <<vdb_enabled, model_dim, store_call>>
           /\ UNCHANGED outside_facade

\* search_similar_items(query_text, summary_id, top_k)
Search ==
    \E query \in Queries, top_k \in 0..MaxTopK, outcome \in SearchOutcomes :
        LET idx_ok == outcome # "index fails"
            db_ok == outcome # "database fails"
        IN /\ stores < MaxServiceCalls
           /\ stores' = stores + 1
           /\ vdb_enabled \/ idx_ok
           /\ search_call' =
                  [name |-> "search", query_text |-> query.query_text,
                   summary_id |-> query.summary_id, top_k |-> top_k,
                   idx_ok |-> idx_ok, db_ok |-> db_ok,
                   ret |-> search_similar_items(table_rows, index_rows, vdb_enabled,
                                                model_dim, query.query_text,
                                                query.summary_id, top_k, idx_ok, db_ok)]
           /\ UNCHANGED <<table_rows, index_rows, vdb_enabled, model_dim, store_call>>
           /\ UNCHANGED outside_facade

\* the write path, attempt by attempt
StoreNext ==
    \/ StartStore
    \/ StoreAttemptFails
    \/ StoreAttemptSucceeds
    \/ StoreExhausted

StoreSpec == FacadeInit /\ [][StoreNext]_vars

\* the read path over what the write path has stored, under the default model
SearchInit ==
    /\ FacadeInit
    /\ model_dim = Dim

SearchNext ==
    \/ Store
    \/ Search

SearchSpec == SearchInit /\ [][SearchNext]_vars

scan_ranking ==
    LET source == query_source(table_rows, search_call.query_text,
                               search_call.summary_id)
    IN IF source = "" THEN << >>
       ELSE fallback_search(table_rows, encode(model_dim, source),
                            search_call.summary_id, search_call.top_k)

\* C25. A search that the relational store answers returns the ranking of
\* the vector index when the index is enabled and its query succeeds, and
\* the ranking of the relational scan when the index is not enabled or its
\* query fails.
C25_DegradesToScan ==
    (search_call.name = "search" /\ search_call.db_ok)
        => IF vdb_enabled /\ search_call.idx_ok
           THEN search_call.ret =
                    _search(table_rows, index_rows, TRUE, model_dim,
                            search_call.query_text, search_call.summary_id,
                            search_call.top_k, TRUE)
           ELSE search_call.ret = scan_ranking

\* the place of a result's record in the scan of the table
scan_position(x) ==
    CHOOSE i \in 1..Len(table_rows) :
        table_rows[i].item_type = x.item_type /\ table_rows[i].item_id = x.item_id

\* C26. Without the vector index, a search with top_k >= 0 returns at most
\* top_k results, in non-increasing order of score, results of equal score
\* in the order of the scan; no result has an empty text, and a search by
\* summary_id does not return that summary.
C26_FallbackRanking ==
    (search_call.name = "search" /\ ~vdb_enabled)
        => LET ret == search_call.ret
           IN /\ Len(ret) <= search_call.top_k
              /\ \A i, j \in 1..Len(ret) :
                     i < j => /\ ret[i].score >= ret[j].score
                              /\ ret[i].score = ret[j].score
                                     => scan_position(ret[i]) < scan_position(ret[j])
              /\ \A i \in 1..Len(ret) :
                     /\ ret[i].text # ""
                     /\ search_call.summary_id # ""
                            => ~(ret[i].item_type = "summary"
                                 /\ ret[i].item_id = search_call.summary_id)

\* a fallback search has returned two results of equal score
C26_Witness ==
    /\ search_call.name = "search"
    /\ ~vdb_enabled
    /\ Len(search_call.ret) = 2
    /\ search_call.ret[1].score = search_call.ret[2].score

\* C27. Every vector in the embeddings table of the service passes the
\* validation gate (length, not all zero, not uniform).
C27_StoredVectorsAreValid ==
    \A i \in 1..Len(table_rows) : validate_embedding(table_rows[i].vector_blob)

\* ============================================================ process_message
\* what process_message is called with: well-formed calls, the calls of
\* test_input_validation (one bad argument each), and calls with a
\* non-string and an empty argument at once
call_of(u, sess, plat, m) == [user_id |-> u, session_id |-> sess, platform |-> plat,
                              message_text |-> m]

CallArgs ==
    {call_of(StrArg(u), StrArg("s1"), StrArg("web"), StrArg(m)) :
         u \in {"alice", "bob"}, m \in {"hello", ""}}
    \cup {call_of(IntArg(123), StrArg("s1"), StrArg("web"), StrArg("hello")),
          call_of(StrArg("alice"), IntArg(456), StrArg("web"), StrArg("hello")),
          call_of(StrArg("alice"), StrArg("s1"), IntArg(789), StrArg("hello")),
          call_of(StrArg("alice"), StrArg("s1"), StrArg("web"), IntArg(123)),
          call_of(StrArg(""), StrArg("s1"), StrArg("web"), StrArg("hello")),
          call_of(StrArg("alice"), StrArg(""), StrArg("web"), StrArg("hello")),
          call_of(StrArg("alice"), StrArg("s1"), StrArg(""), StrArg("hello"))}
    \cup {call_of(StrArg(""), IntArg(456), StrArg("web"), StrArg("hello")),
          call_of(StrArg("alice"), StrArg(""), IntArg(789), StrArg("hello")),
          call_of(StrArg(""), StrArg(""), StrArg(""), IntArg(123)),
          call_of(IntArg(123), StrArg(""), StrArg("web"), StrArg(""))}

\* isinstance(x, str)
is_str(x) == x.type = "str"

\* the input validation of process_message: the exception it raises
input_error_refusing_empty_message(u, sess, plat, m) ==
    IF ~is_str(u) \/ ~is_str(sess) \/ ~is_str(plat) \/ ~is_str(m) THEN "TypeError"
    ELSE IF u.str = "" \/ sess.str = "" \/ plat.str = "" \/ m.str = "" THEN "ValueError"
    ELSE "none"

input_error_values_first(u, sess, plat, m) ==
    IF (is_str(u) /\ u.str = "") \/ (is_str(sess) /\ sess.str = "")
           \/ (is_str(plat) /\ plat.str = "") THEN "ValueError"
    ELSE IF ~is_str(u) \/ ~is_str(sess) \/ ~is_str(plat) \/ ~is_str(m) THEN "TypeError"
    ELSE "none"

input_error(u, sess, plat, m) ==
    IF ~is_str(u) THEN "TypeError"
    ELSE IF ~is_str(sess) THEN "TypeError"
    ELSE IF ~is_str(plat) THEN "TypeError"
    ELSE IF ~is_str(m) THEN "TypeError"
    ELSE IF u.str = "" THEN "ValueError"
    ELSE IF sess.str = "" THEN "ValueError"
    ELSE IF plat.str = "" THEN "ValueError"
    ELSE "none"

\* save_embedding on the arguments process_message gives it: what it
\* returns and the table it leaves; db_ok is whether sqlite3 lets it write.
\* json.dumps writes the repr of each float, which json.loads reads back
\* to the same float
save_embedding_returns(v, db_ok) == validate_embedding(v) /\ db_ok

save_embedding_leaves(rows, u, sess, plat, v, db_ok) ==
    IF save_embedding_returns(v, db_ok)
    THEN Append(rows, [user_id |-> u, session_id |-> sess, platform |-> plat,
                       obfuscated_embedding |-> v])
    ELSE rows

\* log_to_csv: likewise for the file
log_to_csv_returns(v, csv_ok) == validate_embedding(v) /\ csv_ok

log_to_csv_leaves(lines, u, sess, plat, v, csv_ok) ==
    IF log_to_csv_returns(v, csv_ok)
    THEN Append(lines, [user_id |-> u, session_id |-> sess, platform |-> plat,
                        obfuscated_embedding |-> v])
    ELSE lines

\* assistant_pipeline.py has been imported, and keystore.py with it: the
\* module-level KeyStore() created the master key; nothing is stored
IntakeInit ==
    /\ ResilienceIdle
    /\ TransformIdle
    /\ PipelineIdle
    /\ CacheIdle
    /\ FacadeIdle
    /\ SharedIdle
    /\ hash_salt \in Salts
    /\ rng \in Salts
    /\ message_text = ""
    /\ generated = NoVector
    /\ first_generated = [t \in Texts |-> NoVector]
    /\ key_stream \in KeyStreams
    /\ issued = 1
    /\ master_key_rows = {[id |-> 1, key_data |-> key_stream[1]]}
    /\ user_key_rows = {}
    /\ instances = [i \in {0} \cup Callers |->
                       IF i = 0 THEN [master_key |-> key_stream[1], supplied |-> FALSE]
                       ELSE NoInstance]
    /\ calls = 0
    /\ last_call = NoCall
    /\ current_key = [u \in Users |-> [key |-> Absent, master_key |-> Absent]]
    /\ db_rows = << >>
    /\ csv_lines = << >>
    /\ msg_count = 0
    /\ msg_call = NoProcess
    /\ first_success = {}

\* process_message(user_id, session_id, platform, message_text): the input
\* validation and, past it, embedding = generate_embedding(message_text)
ProcessMessage ==
    \E args \in CallArgs :
        LET u == args.user_id
            sess == args.session_id
            plat == args.platform
            m == args.message_text
            call == [NoProcess EXCEPT
                        !.user_id = u, !.session_id = sess, !.platform = plat,
                        !.message_text = m, !.rows_before = Len(db_rows),
                        !.lines_before = Len(csv_lines), !.keys_before = user_key_rows]
        IN /\ msg_call.pc \in {"idle", "done"}
           /\ msg_count < MaxProcessed
           /\ msg_count' = msg_count + 1
           /\ IF input_error(u, sess, plat, m) # "none"
              THEN /\ msg_call' = [call EXCEPT !.pc = "done",
                                               !.raised = input_error(u, sess, plat, m)]
                   /\ rng' = rng
              ELSE /\ msg_call' = [call EXCEPT
                          !.pc = "keystore",
                          !.embedding = generate_embedding(hash_salt, m.str)]
                   /\ rng' = rng_after(rng_seeded(text_seed(hash_salt, m.str)), Dim)
           /\ UNCHANGED <<hash_salt, message_text, generated, first_generated>>
           /\ UNCHANGED <<vault_vars, db_rows, csv_lines, first_success>>
           /\ UNCHANGED outside_intake

\* keystore = KeyStore()
MessageOpensKeyStore ==
    /\ msg_call.pc = "keystore"
    /\ construct(1, Absent)
    /\ msg_call' = [msg_call EXCEPT !.pc = "get_key"]
    /\ UNCHANGED <<generator_vars, db_rows, csv_lines, msg_count, first_success>>
    /\ UNCHANGED outside_intake

\* user_key_bytes = keystore.get_key(user_id)
MessageFetchesKey ==
    /\ msg_call.pc = "get_key"
    /\ get_key(1, msg_call.user_id.str)
    /\ msg_call' = [msg_call EXCEPT
           !.user_key = last_call'.ret,
           !.pc = IF last_call'.ret = Absent THEN "generate_key" ELSE "save"]
    /\ UNCHANGED <<generator_vars, db_rows, csv_lines, msg_count, first_success>>
    /\ UNCHANGED outside_intake

\* if user_key_bytes is None: user_key_bytes = keystore.generate_key(user_id)
MessageCreatesKey ==
    /\ msg_call.pc = "generate_key"
    /\ generate_key(1, msg_call.user_id.str, "generate_key")
    /\ msg_call' = [msg_call EXCEPT !.user_key = last_call'.ret, !.pc = "save"]
    /\ UNCHANGED <<generator_vars, db_rows, csv_lines, msg_count, first_success>>
    /\ UNCHANGED outside_intake

\* the key store raises (sqlite3 fails under KeyStore(), get_key or
\* generate_key): except Exception, the result has status "error"
KeyStoreRaises ==
    /\ msg_call.pc \in {"keystore", "get_key", "generate_key"}
    /\ msg_call' = [msg_call EXCEPT !.pc = "done", !.status = "error", !.failed = msg_call.pc]
    /\ instances' = [instances EXCEPT ![1] = NoInstance]
    /\ UNCHANGED <<master_key_rows, user_key_rows, key_stream, issued, calls, last_call,
                   current_key>>
    /\ UNCHANGED <<generator_vars, db_rows, csv_lines, msg_count, first_success>>
    /\ UNCHANGED outside_intake

\* the successful calls so far for user u and message t
earlier_success(u, t) == {r \in first_success : r.user_id = u /\ r.message_text = t}

\* obfuscate, save_embedding, log_to_csv and the return of process_message
WriteAndReturn ==
    \E db_ok \in BOOLEAN, csv_ok \in BOOLEAN :
        LET transformed == obfuscate(msg_call.embedding, msg_call.user_key)
            v == transformed.val
            u == msg_call.user_id.str
            sess == msg_call.session_id.str
            plat == msg_call.platform.str
        IN /\ msg_call.pc = "save"
           /\ IF transformed.kind # "ok"
              THEN /\ msg_call' = [msg_call EXCEPT !.pc = "done", !.status = "error",
                                                   !.failed = "obfuscate"]
                   /\ UNCHANGED <<db_rows, csv_lines, first_success>>
              ELSE /\ first_success' =
                          IF earlier_success(u, msg_call.message_text.str) = {}
                          THEN first_success \cup
                                   {[user_id |-> u,
                                     message_text |-> msg_call.message_text.str,
                                     embedding |-> msg_call.embedding,
                                     obfuscated_embedding |-> v]}
                          ELSE first_success
                   /\ db_rows' = save_embedding_leaves(db_rows, u, sess, plat, v, db_ok)
                   /\ csv_lines' = log_to_csv_leaves(csv_lines, u, sess, plat, v, csv_ok)
                   /\ msg_call' = [msg_call EXCEPT
                          !.pc = "done", !.status = "success",
                          !.obfuscated_embedding = v, !.write_attempted = TRUE,
                          !.db_success = save_embedding_returns(v, db_ok),
                          !.csv_success = log_to_csv_returns(v, csv_ok)]
           /\ instances' = [instances EXCEPT ![1] = NoInstance]
           /\ UNCHANGED <<master_key_rows, user_key_rows, key_stream, issued, calls,
                          last_call, current_key>>
           /\ UNCHANGED <<generator_vars, msg_count>>
           /\ UNCHANGED outside_intake

IntakeNext ==
    \/ ProcessMessage
    \/ MessageOpensKeyStore
    \/ MessageFetchesKey
    \/ MessageCreatesKey
    \/ KeyStoreRaises
    \/ WriteAndReturn

IntakeSpec == IntakeInit /\ [][IntakeNext]_vars

\* the arguments of the call are strings and the three ids are not empty
well_formed_call ==
    /\ is_str(msg_call.user_id) /\ msg_call.user_id.str # ""
    /\ is_str(msg_call.session_id) /\ msg_call.session_id.str # ""
    /\ is_str(msg_call.platform) /\ msg_call.platform.str # ""
    /\ is_str(msg_call.message_text)

\* the table and the file are as they were when the call was made
nothing_written ==
    /\ Len(db_rows) = msg_call.rows_before
    /\ Len(csv_lines) = msg_call.lines_before

C29_SuccessMeansStored ==
    (msg_call.pc = "done" /\ msg_call.status = "success") =>
        \E i \in 1..Len(db_rows) :
            db_rows[i] = [user_id |-> msg_call.user_id.str,
                          session_id |-> msg_call.session_id.str,
                          platform |-> msg_call.platform.str,
                          obfuscated_embedding |-> msg_call.obfuscated_embedding]

\* one of the arguments of the call is not a string
some_not_str ==
    \/ ~is_str(msg_call.user_id)
    \/ ~is_str(msg_call.session_id)
    \/ ~is_str(msg_call.platform)
    \/ ~is_str(msg_call.message_text)

\* user_id, session_id or platform is the empty string
some_empty_id ==
    \/ msg_call.user_id = StrArg("")
    \/ msg_call.session_id = StrArg("")
    \/ msg_call.platform = StrArg("")

\* C30: process_message called with a non-string user_id, session_id,
\* platform or message raises TypeError, and called with strings of which
\* user_id, session_id or platform is empty raises ValueError; in both
\* cases no vector was generated, no key was created or fetched, and no row
\* and no CSV line was written
C30_BadInputRaisesFirst ==
    (msg_call.pc # "idle" /\ (some_not_str \/ some_empty_id)) =>
        /\ msg_call.pc = "done"
        /\ msg_call.raised = (IF some_not_str THEN "TypeError" ELSE "ValueError")
        /\ msg_call.status = "none"
        /\ msg_call.embedding = << >>
        /\ msg_call.user_key = Absent
        /\ user_key_rows = msg_call.keys_before
        /\ nothing_written

\* an empty session_id is refused after an earlier message was stored
C30_Witness ==
    /\ msg_call.pc = "done"
    /\ msg_call.raised = "ValueError"
    /\ msg_call.session_id = StrArg("")
    /\ user_key_rows # {}
    /\ Len(db_rows) = 1

C34_StateMatchesCounters ==
    /\ state = "CLOSED" => failure_count < failure_threshold
    /\ state \in {"OPEN", "HALF_OPEN"} => last_failure_time # None

\* the breaker has opened, closed again and counted failures since
C34_Witness ==
    /\ state = "CLOSED"
    /\ failures_ever = failure_threshold
    /\ failure_count = failure_threshold - 1
    /\ failure_count > 0

\* C35: a call rejected with CircuitBreakerOpenException leaves state,
\* failure count, success count and last_failure_time as they were, so a
\* rejection does not postpone the recovery probe
C35_RejectionChangesNothing ==
    [][rejected' = rejected + 1 => UNCHANGED breaker]_vars

\* a direct call was rejected and has returned to its caller
C35_Witness ==
    /\ op = "call"
    /\ pc = "done"
    /\ rejected = 1
    /\ result = CircuitOpen
    /\ state = "OPEN"

\* ------------------------------------------------------------ recovery
\* the clock reading from which the wrapped function succeeds on every call;
\* it leaves the clock room for a full recovery_timeout afterwards
LastFailureBy == MaxTime - MaxRecoveryTimeout

\* the wrapped function raises, which it does only before LastFailureBy
FuncRaisesEarly ==
    /\ now < LastFailureBy
    /\ FuncRaises

\* direct calls of the breaker around a function that recovers
RecoveryNext ==
    \/ Tick
    \/ StartCall
    \/ CallEntry
    \/ FuncReturns
    \/ FuncRaisesEarly
    \/ Finish

\* time keeps advancing, calls keep arriving, and a call that was made runs
\* to its end
RecoverySpec ==
    /\ Init
    /\ [][RecoveryNext]_vars
    /\ SF_vars(Tick)
    /\ WF_vars(StartCall)
    /\ WF_vars(CallEntry)
    /\ WF_vars(FuncReturns)
    /\ WF_vars(Finish)

\* C36: from any OPEN state, if time keeps advancing, calls keep arriving and
\* the wrapped function succeeds on every call from some point on, the
\* breaker eventually reaches CLOSED and stays CLOSED
C36_RecoveryIsLive ==
    [](state = "OPEN" => <>[](state = "CLOSED"))

\* the breaker was opened, and is closed after two successes at a time when
\* the function no longer fails
C36_Witness ==
    /\ state = "CLOSED"
    /\ failures_ever = failure_threshold
    /\ last_fail_at # None
    /\ succ_run = SuccessesToClose
    /\ now >= LastFailureBy

\* ============================================================ cached, again
\* C39: with caching enabled, a call of a function wrapped by cached(ttl)
\* that finds the entry an earlier call with the same arguments stored, not
\* yet expired and not deleted or flushed since, returns that call's result
\* without invoking the function again, whatever value the function returned
C39_SecondCallIsAHit ==
    [][(/\ IsCacheCall("cached")
        /\ enabled
        /\ _make_key(cache_call'.key) \in DOMAIN _cache
        /\ stored_by[_make_key(cache_call'.key)] = cache_call'.sig
        /\ is_fresh(_cache[_make_key(cache_call'.key)].expiry, clock))
       => (/\ cache_call'.hit
           /\ ~cache_call'.invoked
           /\ cache_call'.ret = _cache[_make_key(cache_call'.key)].value)]_vars

\* ============================================================ one database file
\* db_manager = DatabaseManager() and save_embedding both open
\* assistant_core.db, and both name their table embeddings.
\* the vectors handed to save_embedding
SavedVectors == {encode(Dim, "hello"), encode(Dim, "world"), [i \in 1..Dim |-> 0]}

\* DatabaseManager.initialize: CREATE TABLE IF NOT EXISTS embeddings with the
\* columns of the service; a table that is there stays as it is
initialize(schema) == IF schema = "none" THEN "service" ELSE schema

\* save_embedding: CREATE TABLE fails on the table that is there, the table
\* lacks user_id, session_id, platform, obfuscated_embedding, and it is dropped
schema_is_dropped(schema) == schema = "service"

\* the embed_logger is not in use, the service is not constructed
FileInit ==
    /\ ResilienceIdle
    /\ TransformIdle
    /\ GeneratorIdle
    /\ VaultIdle
    /\ PipelineIdle
    /\ CacheIdle
    /\ IntakeIdle
    /\ table_rows = << >>
    /\ index_rows = << >>
    /\ vdb_enabled = FALSE
    /\ model_dim = 0
    /\ stores = 0
    /\ store_call = NoStore
    /\ search_call = NoSearch
    /\ embeddings_schema = "none"
    /\ file_ops = 0
    /\ file_call = NoFileCall
    /\ workers = << >>

\* EmbeddingService(): db_manager.initialize()
OpenService ==
    /\ file_ops < MaxFileOps
    /\ model_dim = 0
    /\ file_ops' = file_ops + 1
    /\ model_dim' = Dim
    /\ embeddings_schema' = initialize(embeddings_schema)
    /\ file_call' = [NoFileCall EXCEPT !.name = "initialize"]
    /\ UNCHANGED <<table_rows, index_rows, vdb_enabled, stores, store_call, search_call,
                   workers>>
    /\ UNCHANGED <<core_vars, cache_vars, intake_vars>>

\* store_embedding(item_type, item_id, text) with the index disabled: the
\* INSERT names the columns of the service, and fails on every attempt on a
\* table that has others
StoreInFile ==
    \E item \in Items, text \in Texts :
        LET row == [item_type |-> item.item_type, item_id |-> item.item_id,
                    vector_blob |-> encode(model_dim, text), text_content |-> text]
            stored == embeddings_schema = "service"
        IN /\ file_ops < MaxFileOps
           /\ model_dim # 0
           /\ file_ops' = file_ops + 1
           /\ table_rows' = IF stored THEN execute_update(table_rows, row) ELSE table_rows
           /\ file_call' = [NoFileCall EXCEPT
                  !.name = "store_embedding", !.ret = stored,
                  !.table_before = table_rows, !.rows_before = db_rows,
                  !.schema_before = embeddings_schema]
           /\ UNCHANGED <<index_rows, vdb_enabled, model_dim, stores, store_call,
                          search_call, embeddings_schema, workers>>
           /\ UNCHANGED <<core_vars, cache_vars, intake_vars>>

\* save_embedding(user_id, session_id, embedding_data, platform)
SaveInFile ==
    \E u \in Senders, v \in SavedVectors, db_ok \in BOOLEAN :
        LET written == save_embedding_returns(v, db_ok)
            dropped == written /\ schema_is_dropped(embeddings_schema)
        IN /\ file_ops < MaxFileOps
           /\ file_ops' = file_ops + 1
           /\ embeddings_schema' = IF written THEN "logger" ELSE embeddings_schema
           /\ table_rows' = IF dropped THEN << >> ELSE table_rows
           /\ db_rows' = save_embedding_leaves(db_rows, u, "s1", "web", v, db_ok)
           /\ file_call' = [NoFileCall EXCEPT
                  !.name = "save_embedding", !.ret = written,
                  !.table_before = table_rows, !.rows_before = db_rows,
                  !.schema_before = embeddings_schema,
                  !.row = <<[user_id |-> u, session_id |-> "s1", platform |-> "web",
                             obfuscated_embedding |-> v]>>]
           /\ UNCHANGED <<index_rows, vdb_enabled, model_dim, stores, store_call,
                          search_call, workers>>
           /\ UNCHANGED <<csv_lines, msg_count, msg_call, first_success>>
           /\ UNCHANGED <<core_vars, cache_vars>>

FileNext ==
    \/ OpenService
    \/ StoreInFile
    \/ SaveInFile

FileSpec == FileInit /\ [][FileNext]_vars

\* C37: a save_embedding call that returns True adds exactly one row to the
\* table embeddings and leaves every row that was in it before the call as
\* it was, the rows written through EmbeddingService.store_embedding included
C37_SaveKeepsOtherRows ==
    (file_call.name = "save_embedding" /\ file_call.ret) =>
        /\ db_rows = file_call.rows_before \o file_call.row
        /\ table_rows = file_call.table_before

\* ============================================================ threads
Workers == 1..NumWorkers

\* ------------------------------------------------------------ one breaker, many callers
\* CircuitBreaker has no lock: the statements of call and _record_failure of
\* one thread interleave with those of the others, and
\* "self._failure_count += 1" is a read followed by a write.
NoCaller == [pc |-> "start", entry |-> "none", loaded |-> 0, ret |-> "none"]

\* a breaker is constructed and NumWorkers threads are about to call it around
\* a function that raises
CallersInit ==
    /\ ResilienceInit
    /\ TransformIdle
    /\ GeneratorIdle
    /\ VaultIdle
    /\ PipelineIdle
    /\ CacheIdle
    /\ FacadeIdle
    /\ IntakeIdle
    /\ FileIdle
    /\ workers = [w \in Workers |-> NoCaller]

\* what a step of a caller leaves alone
callers_frame ==
    /\ UNCHANGED <<config, success_count, attempt, last_exception, now, op, pc, result,
                   outcomes, sleeps, invoked, rejected, entry_state, call_invoked, history>>
    /\ UNCHANGED <<transform_vars, generator_vars, vault_vars, pipeline_vars>>
    /\ UNCHANGED <<cache_vars, facade_vars, intake_vars>>
    /\ UNCHANGED <<embeddings_schema, file_ops, file_call>>

\* call up to the try statement: admit, probe or reject
CallerEnters ==
    \E w \in Workers :
        /\ workers[w].pc = "start"
        /\ IF state = "OPEN"
           THEN IF can_attempt_reset
                THEN /\ state' = "HALF_OPEN"
                     /\ workers' = [workers EXCEPT ![w].pc = "func", ![w].entry = state]
                ELSE /\ workers' = [workers EXCEPT ![w].pc = "done", ![w].entry = state,
                                                   ![w].ret = "open"]
                     /\ UNCHANGED state
           ELSE /\ workers' = [workers EXCEPT ![w].pc = "func", ![w].entry = state]
                /\ UNCHANGED state
        /\ UNCHANGED <<failure_count, last_failure_time>>
        /\ callers_frame

\* func raises; _record_failure reads self._failure_count
CallerLoads ==
    \E w \in Workers :
        /\ workers[w].pc = "func"
        /\ workers' = [workers EXCEPT ![w].pc = "store", ![w].loaded = failure_count]
        /\ UNCHANGED <<state, failure_count, last_failure_time>>
        /\ callers_frame

\* _record_failure writes self._failure_count
CallerStores ==
    \E w \in Workers :
        /\ workers[w].pc = "store"
        /\ failure_count' = workers[w].loaded + 1
        /\ workers' = [workers EXCEPT ![w].pc = "judge"]
        /\ UNCHANGED <<state, last_failure_time>>
        /\ callers_frame

\* the rest of _record_failure, and "raise e"
CallerJudges ==
    \E w \in Workers :
        /\ workers[w].pc = "judge"
        /\ last_failure_time' = now
        /\ state' = IF state = "HALF_OPEN"
                    THEN "OPEN"
                    ELSE IF failure_count >= failure_threshold
                         THEN "OPEN"
                         ELSE state
        /\ workers' = [workers EXCEPT ![w].pc = "done", ![w].ret = "err"]
        /\ UNCHANGED failure_count
        /\ callers_frame

CallersNext ==
    \/ CallerEnters
    \/ CallerLoads
    \/ CallerStores
    \/ CallerJudges

CallersSpec == CallersInit /\ [][CallersNext]_vars

\* C32: when NumWorkers callers fail concurrently through one CLOSED breaker
\* and NumWorkers >= failure_threshold, then after all of them have returned
\* the failure count is NumWorkers and the breaker is OPEN
C32_NoLostFailure ==
    (/\ NumWorkers >= failure_threshold
     /\ \A w \in Workers : /\ workers[w].pc = "done"
                           /\ workers[w].entry = "CLOSED"
                           /\ workers[w].ret = "err")
        => (failure_count = NumWorkers /\ state = "OPEN")

\* ------------------------------------------------------------ one cache, many callers
\* CacheManager has no lock: between the statements of one thread's get the
\* other threads run; a set, a delete and a flush are each one dict operation.
NoGetter == [pc |-> "idle", key |-> "", ret |-> None, raised |-> FALSE]

\* cache.py has been imported and NumWorkers threads use cache_manager
SharersInit ==
    /\ ResilienceIdle
    /\ TransformIdle
    /\ GeneratorIdle
    /\ VaultIdle
    /\ PipelineIdle
    /\ FacadeIdle
    /\ IntakeIdle
    /\ FileIdle
    /\ _cache = << >>
    /\ enabled = TRUE
    /\ clock = 0
    /\ cache_ops = 0
    /\ cache_call = NoCacheCall
    /\ last_set = [k \in CacheKeys |-> NoSet]
    /\ stored_by = << >>
    /\ workers = [w \in Workers |-> NoGetter]

\* what a step of get leaves alone
sharers_frame ==
    /\ UNCHANGED <<enabled, clock, last_set>>
    /\ UNCHANGED <<core_vars, facade_vars, intake_vars>>
    /\ UNCHANGED <<embeddings_schema, file_ops, file_call>>

\* get(k) up to "return value" or to the else branch: the entry is looked
\* up, and its expiry compared with the clock (cache_call.ok: get returns
\* from this step)
GetterLooks ==
    \E w \in Workers, k \in CacheKeys :
        LET d == _make_key(k)
            expired == enabled /\ d \in DOMAIN _cache /\ ~is_fresh(_cache[d].expiry, clock)
        IN /\ workers[w].pc \in {"idle", "returned"}
           /\ cache_ops < MaxCacheOps
           /\ cache_ops' = cache_ops + 1
           /\ workers' = [workers EXCEPT ![w] =
                   IF expired
                   THEN [NoGetter EXCEPT !.pc = "evict", !.key = k]
                   ELSE [NoGetter EXCEPT !.pc = "returned", !.key = k,
                                         !.ret = get_returns(_cache, enabled, d, clock)]]
           /\ cache_call' = [NoCacheCall EXCEPT
                  !.name = "get", !.key = k, !.ok = ~expired,
                  !.ret = get_returns(_cache, enabled, d, clock)]
           /\ UNCHANGED <<_cache, stored_by>>
           /\ sharers_frame

\* del self._cache[cache_key], which raises KeyError when the entry has
\* gone, and "return None"
GetterEvicts ==
    \E w \in Workers :
        LET d == _make_key(workers[w].key)
        IN /\ workers[w].pc = "evict"
           /\ _cache' = dict_del(_cache, d)
           /\ stored_by' = [x \in DOMAIN _cache' |-> stored_by[x]]
           /\ workers' = [workers EXCEPT ![w].pc = "returned",
                                         ![w].raised = (d \notin DOMAIN _cache)]
           /\ UNCHANGED <<cache_ops, cache_call>>
           /\ sharers_frame

SharersNext ==
    \/ Advance
    \/ Set
    \/ Delete
    \/ Flush
    \/ GetterLooks
    \/ GetterEvicts

SharersSpec == SharersInit /\ [][SharersNext]_vars

\* the latest set of key k, with no delete or flush since, has not expired
set_in_force(k) == last_set[k] # NoSet /\ is_fresh(last_set[k].expiry, clock)

\* C33: under concurrent use of one CacheManager, a get that found an
\* expired entry for k does not remove the value another caller has set for
\* k in the meantime; and a get(k) made after a set(k, v, ttl), before the
\* new expiry and with no later set, delete or flush, returns v
C33_SetSurvivesConcurrentGet ==
    [][\A w \in Workers :
          /\ (/\ workers[w].pc = "evict"
              /\ workers'[w].pc = "returned"
              /\ set_in_force(workers[w].key))
             => _make_key(workers[w].key) \in DOMAIN _cache'
          /\ (/\ IsCacheCall("get")
              /\ workers'[w] # workers[w]
              /\ set_in_force(workers'[w].key))
             => (workers'[w].pc = "returned"
                 /\ workers'[w].ret = last_set[workers'[w].key].value)]_vars

\* ------------------------------------------------------------ one generator, many callers
\* generate_embedding seeds and draws from the module-level generator of
\* random, which all threads share; a thread may run between any two of the
\* calls random.seed and random.uniform of another.
NoDrawer == [pc |-> "idle", text |-> "", drawn |-> << >>, ret |-> << >>]

\* an interpreter has started and NumWorkers threads are about to call
\* generate_embedding
DrawersInit ==
    /\ ResilienceIdle
    /\ TransformIdle
    /\ VaultIdle
    /\ PipelineIdle
    /\ CacheIdle
    /\ FacadeIdle
    /\ IntakeIdle
    /\ FileIdle
    /\ hash_salt \in Salts
    /\ rng \in Salts
    /\ message_text = ""
    /\ generated = NoVector
    /\ first_generated = [t \in Texts |-> NoVector]
    /\ workers = [w \in Workers |-> NoDrawer]

\* what a step of generate_embedding leaves alone
drawers_frame ==
    /\ UNCHANGED <<hash_salt, message_text, generated, first_generated>>
    /\ UNCHANGED <<resilience_vars, transform_vars, vault_vars, pipeline_vars>>
    /\ UNCHANGED <<cache_vars, facade_vars, intake_vars>>
    /\ UNCHANGED <<embeddings_schema, file_ops, file_call>>

\* seed = hash(message_text) % (2**32); random.seed(seed)
DrawerSeeds ==
    \E w \in Workers, t \in Texts :
        /\ workers[w].pc = "idle"
        /\ rng' = rng_seeded(text_seed(hash_salt, t))
        /\ workers' = [workers EXCEPT ![w] = [NoDrawer EXCEPT !.pc = "draw", !.text = t]]
        /\ drawers_frame

\* val = random.uniform(-1.0, 1.0); embedding.append(val); after the last
\* draw the vector is normalised and returned
DrawerDraws ==
    \E w \in Workers :
        LET val == (rng_step(rng) % 1024) - 512
            embedding0 == Append(workers[w].drawn, val)
        IN /\ workers[w].pc = "draw"
           /\ rng' = rng_step(rng)
           /\ workers' = [workers EXCEPT ![w] =
                   IF Len(embedding0) = Dim
                   THEN [@ EXCEPT !.pc = "done", !.drawn = embedding0,
                                  !.ret = normalise(embedding0)]
                   ELSE [@ EXCEPT !.drawn = embedding0]]
           /\ drawers_frame

DrawersNext ==
    \/ DrawerSeeds
    \/ DrawerDraws

DrawersSpec == DrawersInit /\ [][DrawersNext]_vars

\* C38: generate_embedding(t) returns the same vector when other threads
\* call generate_embedding concurrently as when it runs alone
C38_ConcurrentCallsAgree ==
    \A w \in Workers :
        workers[w].pc = "done" =>
            workers[w].ret = generate_embedding(hash_salt, workers[w].text)

\* ------------------------------------------------------------ one key store, many constructors
\* KeyStore() in several threads or processes over one keystore.db: the
\* SELECT and the INSERT of _get_or_create_master_key are separate
\* statements, and table master_key has id as its primary key.
NoBuilder == [pc |-> "start", master_key |-> Absent, fresh |-> Absent, lost |-> FALSE]

\* variant: INSERT OR REPLACE INTO master_key
insert_master_replacing(rows, k) ==
    [rows |-> {[id |-> 1, key_data |-> k]}, ok |-> TRUE]

\* INSERT INTO master_key (id, key_data) VALUES (1, ?): the table afterwards,
\* and whether the statement went through (it raises sqlite3.IntegrityError
\* on a second row with id 1)
insert_master(rows, k) ==
    IF \E r \in rows : r.id = 1
    THEN [rows |-> rows, ok |-> FALSE]
    ELSE [rows |-> rows \cup {[id |-> 1, key_data |-> k]}, ok |-> TRUE]

\* no database file yet; NumWorkers callers are about to construct a KeyStore
BuildersInit ==
    /\ ResilienceIdle
    /\ TransformIdle
    /\ GeneratorIdle
    /\ PipelineIdle
    /\ CacheIdle
    /\ FacadeIdle
    /\ IntakeIdle
    /\ FileIdle
    /\ master_key_rows = {}
    /\ user_key_rows = {}
    /\ instances = [i \in Instances |-> NoInstance]
    /\ key_stream \in KeyStreams
    /\ issued = 0
    /\ calls = 0
    /\ last_call = NoCall
    /\ current_key = [u \in Users |-> [key |-> Absent, master_key |-> Absent]]
    /\ workers = [w \in Workers |-> NoBuilder]

\* what a step of a constructor leaves alone
builders_frame ==
    /\ UNCHANGED <<instances, key_stream, last_call, current_key>>
    /\ UNCHANGED <<resilience_vars, transform_vars, generator_vars, pipeline_vars>>
    /\ UNCHANGED <<cache_vars, facade_vars, intake_vars>>
    /\ UNCHANGED <<embeddings_schema, file_ops, file_call>>

\* KeyStore() up to the INSERT: SELECT key_data FROM master_key WHERE id = 1,
\* and Fernet.generate_key() when there is no row
BuilderSelects ==
    \E w \in Workers :
        /\ workers[w].pc = "start"
        /\ IF \E r \in master_key_rows : r.id = 1
           THEN /\ workers' = [workers EXCEPT
                       ![w].pc = "ready",
                       ![w].master_key = (CHOOSE r \in master_key_rows : r.id = 1).key_data]
                /\ UNCHANGED issued
           ELSE \E k \in FreshKeys :
                    /\ workers' = [workers EXCEPT ![w].pc = "insert", ![w].fresh = k]
                    /\ issued' = issued + 1
        /\ UNCHANGED <<master_key_rows, user_key_rows, calls>>
        /\ builders_frame

\* the INSERT and the commit; when it raises, so does KeyStore()
BuilderInserts ==
    \E w \in Workers :
        LET made == insert_master(master_key_rows, workers[w].fresh)
        IN /\ workers[w].pc = "insert"
           /\ master_key_rows' = made.rows
           /\ workers' = [workers EXCEPT
                  ![w].pc = IF made.ok THEN "ready" ELSE "failed",
                  ![w].master_key = IF made.ok THEN workers[w].fresh ELSE Absent,
                  ![w].lost = ~made.ok]
           /\ UNCHANGED <<user_key_rows, issued, calls>>
           /\ builders_frame

\* the caller whose KeyStore() raised calls KeyStore() again
BuilderRetries ==
    \E w \in Workers :
        /\ workers[w].pc = "failed"
        /\ workers' = [workers EXCEPT ![w].pc = "start", ![w].fresh = Absent]
        /\ UNCHANGED <<master_key_rows, user_key_rows, issued, calls>>
        /\ builders_frame

\* generate_key(user_id) on a constructed instance
BuilderGeneratesKey ==
    \E w \in Workers, u \in Senders, k \in FreshKeys :
        /\ workers[w].pc = "ready"
        /\ calls < MaxCalls
        /\ calls' = calls + 1
        /\ user_key_rows' = insert_or_replace(user_key_rows, u,
                                    encrypt(workers[w].master_key, k))
        /\ issued' = issued + 1
        /\ UNCHANGED <<master_key_rows, workers>>
        /\ builders_frame

BuildersNext ==
    \/ BuilderSelects
    \/ BuilderInserts
    \/ BuilderRetries
    \/ BuilderGeneratesKey

BuildersSpec == BuildersInit /\ [][BuildersNext]_vars

\* C40: any two KeyStore instances constructed without an explicit master
\* key on the same backing store hold the same master key, also when they
\* were constructed concurrently on a store that had no master key yet; so
\* get_key through any instance returns the key that generate_key stored
\* through any other
C40_OneMasterKeyForAll ==
    /\ \A w1, w2 \in Workers :
           (workers[w1].pc = "ready" /\ workers[w2].pc = "ready")
               => workers[w1].master_key = workers[w2].master_key
    /\ \A w \in Workers, u \in Senders :
           (workers[w].pc = "ready" /\ select_key(user_key_rows, u) # {})
               => get_key_result(user_key_rows, workers[w].master_key, u)
                      = stored_key(user_key_rows, u)

\* two instances stand, one of them built by a caller whose first KeyStore()
\* lost the race for the master key, and a user key is stored
C40_Witness ==
    /\ \A w \in Workers : workers[w].pc = "ready"
    /\ \E w \in Workers : workers[w].lost
    /\ user_key_rows # {}

====
